---- MODULE Spec2Model ----
(***************************************************************************)
(* A model of ts-collections: the Collection class (src/collection.ts) and *)
(* the dot-path helpers (src/helpers.ts).                                  *)
(*                                                                         *)
(* JavaScript values are tagged records.  Strings are sequences of         *)
(* one-character strings, so that parseInt, String(n) and split('.') are   *)
(* computed and not assumed.  Arrays and plain objects are values; Map     *)
(* objects and Collections live in a heap and are named by reference,      *)
(* because two Collections may share one Map.                              *)
(***************************************************************************)
EXTENDS Integers, Sequences, FiniteSets, TLC

VARIABLES
  maps,   \* heap of Map objects: maps[m] is the ordered entry list <<key, value>> of Map m
  items,  \* items[c] is the Map held in the `items` field of Collection c
  ev,     \* the last call made and what it returned
  steps   \* number of calls made so far

vars == <<maps, items, ev, steps>>

-----------------------------------------------------------------------------
(* Bounds of the model *)

MaxSteps == 3    \* calls made in one run

MaxCalls == 1    \* calls the client of the query operations makes in one run

-----------------------------------------------------------------------------
(* JavaScript values *)

Num(n) == [t |-> "num", n |-> n]
Str(s) == [t |-> "str", s |-> s]
Bool(b) == [t |-> "bool", b |-> b]
Undef == [t |-> "undef"]
Null == [t |-> "null"]
Arr(a) == [t |-> "arr", a |-> a]          \* a: sequence of values
Obj(e) == [t |-> "obj", e |-> e]          \* e: sequence of <<Str key, value>> in property order
Iter(a) == [t |-> "iter", a |-> a]        \* an iterator that yields the values of a
Col(c) == [t |-> "col", id |-> c]         \* reference to Collection c
MapRef(m) == [t |-> "map", id |-> m]      \* reference to Map m
Fun(r) == [t |-> "fun", r |-> r]          \* a zero-argument function returning r
Throw == [t |-> "throw"]                  \* the call raised a TypeError

\* typeof value
TypeOf(v) ==
  CASE v.t = "num" -> "number"
    [] v.t = "str" -> "string"
    [] v.t = "bool" -> "boolean"
    [] v.t = "undef" -> "undefined"
    [] v.t = "fun" -> "function"
    [] OTHER -> "object"

-----------------------------------------------------------------------------
(* Strings *)

Digits == <<"0", "1", "2", "3", "4", "5", "6", "7", "8", "9">>

IsDigit(ch) == \E i \in 1..10 : Digits[i] = ch

DigitVal(ch) == (CHOOSE i \in 1..10 : Digits[i] = ch) - 1

RECURSIVE NatToStr(_)
NatToStr(n) == IF n < 10 THEN <<Digits[n + 1]>>
               ELSE NatToStr(n \div 10) \o <<Digits[(n % 10) + 1]>>

\* Number.prototype.toString for an integer
IntToStr(n) == IF n < 0 THEN <<"-">> \o NatToStr(0 - n) ELSE NatToStr(n)

NaN == [nan |-> TRUE]
Int32(n) == [nan |-> FALSE, n |-> n]

RECURSIVE DigitPrefix(_, _, _)
\* value of the longest run of digits of s from position i on, acc so far
DigitPrefix(s, i, acc) ==
  IF i > Len(s) \/ ~IsDigit(s[i]) THEN acc
  ELSE DigitPrefix(s, i + 1, acc * 10 + DigitVal(s[i]))

RECURSIVE SkipBlanks(_, _)
SkipBlanks(s, i) == IF i <= Len(s) /\ s[i] = " " THEN SkipBlanks(s, i + 1) ELSE i

\* Number.parseInt(s, 10) of a string
ParseInt(s) ==
  LET i == SkipBlanks(s, 1)
      neg == i <= Len(s) /\ s[i] = "-"
      j == IF i <= Len(s) /\ s[i] \in {"-", "+"} THEN i + 1 ELSE i
  IN IF j > Len(s) \/ ~IsDigit(s[j]) THEN NaN
     ELSE IF neg THEN Int32(0 - DigitPrefix(s, j, 0)) ELSE Int32(DigitPrefix(s, j, 0))

RECURSIVE SplitFrom(_, _, _)
\* the pieces of s from position i on, cur being the piece under construction
SplitFrom(s, i, cur) ==
  IF i > Len(s) THEN <<cur>>
  ELSE IF s[i] = "." THEN <<cur>> \o SplitFrom(s, i + 1, <<>>)
  ELSE SplitFrom(s, i + 1, Append(cur, s[i]))

\* s.split('.')
Split(s) == SplitFrom(s, 1, <<>>)

\* an array index in the sense of property ordering: the canonical decimal
\* form of a non-negative integer
IsIndexKey(s) ==
  /\ Len(s) > 0
  /\ \A i \in 1..Len(s) : IsDigit(s[i])
  /\ s = NatToStr(DigitPrefix(s, 1, 0))

RECURSIVE JoinComma(_)
JoinComma(ss) == IF Len(ss) = 0 THEN <<>>
                 ELSE IF Len(ss) = 1 THEN ss[1]
                 ELSE ss[1] \o <<",">> \o JoinComma(Tail(ss))

RECURSIVE JsString(_)
\* String(value)
JsString(v) ==
  CASE v.t = "num" -> IntToStr(v.n)
    [] v.t = "str" -> v.s
    [] v.t = "bool" -> IF v.b THEN <<"t", "r", "u", "e">> ELSE <<"f", "a", "l", "s", "e">>
    [] v.t = "undef" -> <<"u", "n", "d", "e", "f", "i", "n", "e", "d">>
    [] v.t = "null" -> <<"n", "u", "l", "l">>
    [] v.t = "arr" -> JoinComma([i \in 1..Len(v.a) |->
                         IF v.a[i].t \in {"undef", "null"} THEN <<>> ELSE JsString(v.a[i])])
    [] OTHER -> <<"[", "o", "b", "j", "e", "c", "t", " ", "O", "b", "j", "e", "c", "t", "]">>

-----------------------------------------------------------------------------
(* Map objects and plain objects *)

\* a[i] of an array, undefined outside it
ElemAt(a, i) == IF i >= 0 /\ i < Len(a) THEN a[i + 1] ELSE Undef

HasKey(e, k) == \E i \in 1..Len(e) : e[i][1] = k

KeyPos(e, k) == CHOOSE i \in 1..Len(e) : e[i][1] = k

\* Map.prototype.set: an existing key keeps its position, a new one goes last
MapSet(e, k, v) ==
  IF HasKey(e, k) THEN [e EXCEPT ![KeyPos(e, k)] = <<k, v>>]
  ELSE Append(e, <<k, v>>)

\* Map.prototype.get
MapGet(e, k) == IF HasKey(e, k) THEN e[KeyPos(e, k)][2] ELSE Undef

RECURSIVE MapFromPairs(_, _)
\* new Map(pairs): set entry[0] => entry[1] for each entry in turn, onto e
MapFromPairs(e, pairs) ==
  IF Len(pairs) = 0 THEN e
  ELSE MapFromPairs(MapSet(e, ElemAt(pairs[1].a, 0), ElemAt(pairs[1].a, 1)), Tail(pairs))

ValuesOf(e) == [i \in 1..Len(e) |-> e[i][2]]

KeysOf(e) == [i \in 1..Len(e) |-> e[i][1]]

\* the position at which property key k is enumerated when added to e:
\* index keys ascending first, other keys in insertion order after them
PropInsertPos(e, k) ==
  IF IsIndexKey(k.s)
  THEN 1 + Cardinality({i \in 1..Len(e) : IsIndexKey(e[i][1].s)
                            /\ ParseInt(e[i][1].s).n < ParseInt(k.s).n})
  ELSE Len(e) + 1

\* obj[key] = v for a plain object with entry list e; key is turned into a string
PropSet(e, key, v) ==
  LET k == Str(JsString(key)) IN
  IF HasKey(e, k) THEN [e EXCEPT ![KeyPos(e, k)] = <<k, v>>]
  ELSE LET p == PropInsertPos(e, k)
       IN SubSeq(e, 1, p - 1) \o << <<k, v>> >> \o SubSeq(e, p, Len(e))

RECURSIVE FromEntriesOnto(_, _)
FromEntriesOnto(e, pairs) ==
  IF Len(pairs) = 0 THEN e
  ELSE FromEntriesOnto(PropSet(e, pairs[1][1], pairs[1][2]), Tail(pairs))

\* Object.fromEntries(pairs), pairs being a sequence of <<key, value>>
ObjectFromEntries(pairs) == Obj(FromEntriesOnto(<<>>, pairs))

-----------------------------------------------------------------------------
(* Collection: input normalisation and the read-only queries *)

Fresh(e) == [kind |-> "fresh", e |-> e]
Alias(m) == [kind |-> "alias", id |-> m]
Raise == [kind |-> "throw"]

IsPair(v) == v.t = "arr" /\ Len(v.a) = 2

\* arrayCase with the pair test reduced to Array.isArray(item)
ArrayCaseAnyArray(a) ==
  IF \A i \in 1..Len(a) : a[i].t = "arr"
  THEN MapFromPairs(<<>>, a)
  ELSE [i \in 1..Len(a) |-> <<Num(i - 1), a[i]>>]

\* arrayCase of getObjectableItems
ArrayCase(a) ==
  IF \A i \in 1..Len(a) : IsPair(a[i])
  THEN MapFromPairs(<<>>, a)
  ELSE [i \in 1..Len(a) |-> <<Num(i - 1), a[i]>>]

\* keys(): a Collection of the keys, built by the constructor from the key iterator
keys(e) == ArrayCase(KeysOf(e))

\* isArray(): keys().every(key => !Number.isNaN(Number.parseInt(String(key), 10)))
isArray(e) ==
  \A i \in 1..Len(keys(e)) : ~ParseInt(JsString(keys(e)[i][2])).nan

\* all() of the Collection that holds Map m
all(ms, m) == IF isArray(ms[m]) THEN Arr(ValuesOf(ms[m])) ELSE MapRef(m)

\* getObjectableItems: a fresh entry list, an existing Map, or a TypeError
getObjectableItems(ms, its, x) ==
  IF TypeOf(x) # "object" THEN Fresh(<< <<Num(0), x>> >>)
  ELSE IF x.t = "col"
    THEN LET values == all(ms, its[x.id])
         IN IF values.t = "arr"
            THEN Fresh([i \in 1..Len(values.a) |-> <<Num(i - 1), values.a[i]>>])
            ELSE Alias(values.id)
  ELSE IF x.t = "map" THEN Alias(x.id)
  ELSE IF x.t = "arr" THEN Fresh(ArrayCase(x.a))
  ELSE IF x.t = "null" THEN Raise      \* `Symbol.iterator in null`
  ELSE IF x.t = "iter" THEN Fresh(ArrayCase(x.a))
  ELSE Fresh(x.e)                      \* new Map(Object.entries(value))

\* this.items = n for the new Collection, which is the last one of the heap
Holding(ms, its, n) ==
  IF n.kind = "alias"
  THEN [maps |-> ms, items |-> Append(its, n.id)]
  ELSE [maps |-> Append(ms, n.e), items |-> Append(its, Len(ms) + 1)]

\* the heap after `new Collection(x)`; the new Collection is the last one.
\* The parameter has the default value [], which undefined is replaced by.
Construct(ms, its, x) ==
  Holding(ms, its, getObjectableItems(ms, its, IF x = Undef THEN Arr(<<>>) ELSE x))

count(e) == Len(e)

entries(e) == e

has(e, k) == HasKey(e, k)

\* toObject(): Object.fromEntries(this.items)
toObject(e) == ObjectFromEntries(e)

-----------------------------------------------------------------------------
(* Callbacks handed to map, filter and sort.  They are pure. *)

\* the callback of map: "inc" is (item) => item + 1 on numbers, "key" is (item, key) => key
MapCallbacks == {"inc", "key"}

CallMap(f, v, k) ==
  IF f = "inc" THEN (IF v.t = "num" THEN Num(v.n + 1) ELSE v) ELSE k

\* the callback of filter: "gt1" is (item) => item > 1, "none" is no callback
FilterCallbacks == {"gt1", "none"}

\* Boolean(value)
Truthy(v) ==
  CASE v.t = "num" -> v.n # 0
    [] v.t = "str" -> Len(v.s) > 0
    [] v.t = "bool" -> v.b
    [] v.t \in {"undef", "null"} -> FALSE
    [] OTHER -> TRUE

\* value.length > 0 for a value of type object
LengthPositive(v) ==
  CASE v.t = "arr" -> Len(v.a) > 0
    [] v.t = "obj" -> /\ HasKey(v.e, Str(<<"l", "e", "n", "g", "t", "h">>))
                      /\ MapGet(v.e, Str(<<"l", "e", "n", "g", "t", "h">>)).t = "num"
                      /\ MapGet(v.e, Str(<<"l", "e", "n", "g", "t", "h">>)).n > 0
    [] OTHER -> FALSE

\* the test filter applies to an entry
Keeps(p, v, k) ==
  IF p = "gt1" THEN v.t = "num" /\ v.n > 1
  ELSE Truthy(v) /\ (IF TypeOf(v) = "object" THEN LengthPositive(v) ELSE TRUE)

\* collation order of the characters used (punctuation, digits, letters)
Collation == <<" ", "-", ",", ".", "[", "]", "*", "+",
               "0", "1", "2", "3", "4", "5", "6", "7", "8", "9",
               "a", "b", "c", "d", "e", "f", "g", "h", "i", "j", "k", "l", "m",
               "n", "o", "O", "p", "q", "r", "s", "t", "u", "v", "w", "x", "y", "z">>

Rank(ch) == CHOOSE i \in 1..Len(Collation) : Collation[i] = ch

RECURSIVE LocaleCompare(_, _)
\* a.localeCompare(b): negative, zero or positive
LocaleCompare(a, b) ==
  IF Len(a) = 0 /\ Len(b) = 0 THEN 0
  ELSE IF Len(a) = 0 THEN 0 - 1
  ELSE IF Len(b) = 0 THEN 1
  ELSE IF Rank(a[1]) # Rank(b[1]) THEN Rank(a[1]) - Rank(b[1])
  ELSE LocaleCompare(Tail(a), Tail(b))

\* the default sorter of sort
sorter(a, b) ==
  IF a.t = "num" /\ b.t = "num" THEN a.n - b.n
  ELSE LocaleCompare(JsString(a), JsString(b))

\* the comparator of sort: "none" is no callback, "desc" is (a, b) => the reverse order
SortCallbacks == {"none", "desc"}

Compare(cmp, a, b) == IF cmp = "desc" THEN sorter(b, a) ELSE sorter(a, b)

\* x put into the sorted list s before every element it does not come after
InsertBeforeEqual(cmp, s, x) ==
  LET later == {i \in 1..Len(s) : Compare(cmp, x[2], s[i][2]) <= 0}
      p == IF later = {} THEN Len(s) + 1 ELSE CHOOSE i \in later : \A j \in later : i <= j
  IN SubSeq(s, 1, p - 1) \o <<x>> \o SubSeq(s, p, Len(s))

\* x put into the sorted list s after every element that does not come after it
InsertSorted(cmp, s, x) ==
  LET later == {i \in 1..Len(s) : Compare(cmp, x[2], s[i][2]) < 0}
      p == IF later = {} THEN Len(s) + 1 ELSE CHOOSE i \in later : \A j \in later : i <= j
  IN SubSeq(s, 1, p - 1) \o <<x>> \o SubSeq(s, p, Len(s))

RECURSIVE SortEntries(_, _, _)
\* Array.prototype.sort on the entry pairs by value: a stable sort
SortEntries(cmp, done, rest) ==
  IF Len(rest) = 0 THEN done
  ELSE SortEntries(cmp, InsertSorted(cmp, done, rest[1]), Tail(rest))

\* the entry list as the array of [key, value] arrays that entries() returns
PairArrays(e) == [i \in 1..Len(e) |-> Arr(<<e[i][1], e[i][2]>>)]

-----------------------------------------------------------------------------
(* Collection: the operations, as functions from heap to heap.  Those that *)
(* return a new Collection return the heap in which it is the last one.    *)

Heap(ms, its) == [maps |-> ms, items |-> its]

RECURSIVE PushAll(_, _)
\* for (const item of items) this.items.set(this.count(), item)
PushAll(e, vs) ==
  IF Len(vs) = 0 THEN e
  ELSE PushAll(MapSet(e, Num(count(e)), vs[1]), Tail(vs))

\* push(...items)
push(ms, its, c, vs) == Heap([ms EXCEPT ![its[c]] = PushAll(@, vs)], its)

\* put(key, newValue)
put(ms, its, c, k, v) ==
  IF k = Undef THEN push(ms, its, c, <<v>>)
  ELSE IF isArray(ms[its[c]]) /\ ParseInt(JsString(k)).nan
  THEN Heap(Append(ms, << <<k, v>> >>), [its EXCEPT ![c] = Len(ms) + 1])
  ELSE Heap([ms EXCEPT ![its[c]] = MapSet(@, k, v)], its)

\* collect()
collect(ms, its, c) == Construct(ms, its, all(ms, its[c]))

\* filter(callback)
filter(ms, its, c, p) ==
  LET Test(x) == Keeps(p, x[2], x[1])
  IN Construct(ms, its, Arr(PairArrays(SelectSeq(entries(ms[its[c]]), Test))))

\* sort that sorts the entries of this.items themselves before copying them
sortInPlace(ms, its, c, cmp) ==
  LET sorted == SortEntries(cmp, <<>>, entries(ms[its[c]]))
  IN Construct([ms EXCEPT ![its[c]] = sorted], its, Arr(PairArrays(sorted)))

\* sort(callback)
sort(ms, its, c, cmp) ==
  Construct(ms, its, Arr(PairArrays(SortEntries(cmp, <<>>, entries(ms[its[c]])))))

\* values()
values(ms, its, c) == Construct(ms, its, Iter(ValuesOf(ms[its[c]])))

\* map(callback)
map(ms, its, c, f) ==
  LET e == entries(ms[its[c]])
  IN Construct(ms, its,
       ObjectFromEntries([i \in 1..Len(e) |-> <<e[i][1], CallMap(f, e[i][2], e[i][1])>>]))

\* concat(source) returns.  When the normalised source is the very Map the
\* result holds (a map-like c concatenated with itself or with a Collection
\* sharing its Map), the loop iterates over the Map it is appending to; that
\* call has no post-state here.
ConcatReturns(ms, its, c, src) ==
  LET h == Construct(ms, its, Col(c))
      n == getObjectableItems(h.maps, h.items, src)
  IN /\ n.kind # "throw"
     /\ n.kind = "alias" => n.id # h.items[Len(h.items)]

\* concat(source)
concat(ms, its, c, src) ==
  LET h == Construct(ms, its, Col(c))
      r == Len(h.items)
      n == getObjectableItems(h.maps, h.items, src)
      vs == IF n.kind = "alias" THEN ValuesOf(h.maps[n.id]) ELSE ValuesOf(n.e)
  IN push(h.maps, h.items, r, vs)

-----------------------------------------------------------------------------
(* The program: a client that constructs Collections and calls their       *)
(* methods, one call per step.                                             *)

\* shorthands for the inputs below
N1 == Num(1)
N2 == Num(2)
KeyA == Str(<<"a">>)
KeyB == Str(<<"b">>)

\* values handed to the constructor and to concat
PlainInputs ==
  { Arr(<<N1, N2>>),                                   \* [1, 2]
    Arr(<<>>),                                         \* []
    Arr(<<Arr(<<N2, N1>>), Arr(<<N1, N2>>)>>),         \* [[2, 1], [1, 2]]
    Arr(<<Arr(<<Num(7)>>)>>),                          \* [[7]]
    Obj(<< <<KeyA, N1>>, <<KeyB, N2>> >>),             \* {a: 1, b: 2}
    Obj(<< <<KeyA, Arr(<<N1, N2>>)>> >>),              \* {a: [1, 2]}
    Obj(<< <<Str(<<"1">>), KeyA>> >>),                 \* {1: 'a'}
    Num(5) }

Cols == 1..Len(items)

Inputs == PlainInputs \cup {Col(c) : c \in Cols}

\* argument lists of push
PushArgs == { <<Num(3)>>, <<Num(3), Num(4)>> }

\* keys and values of put
PutKeys == { Undef, Num(0), Str(<<"1">>), KeyA, Str(<<"1", "a">>) }
PutValues == { Num(9) }

Event(op, c, r, x, y, f) == [op |-> op, c |-> c, r |-> r, x |-> x, y |-> y, f |-> f]

Init ==
  /\ maps = <<>>
  /\ items = <<>>
  /\ ev = Event("init", 0, 0, Undef, Undef, "")
  /\ steps = 0

\* the heap h becomes the state, its last Collection being the result of the call
Returns(h, op, c, x, f) ==
  /\ maps' = h.maps
  /\ items' = h.items
  /\ ev' = Event(op, c, Len(h.items), x, Undef, f)
  /\ steps' = steps + 1

\* new Collection(x)
New(x) ==
  /\ steps < MaxSteps
  /\ getObjectableItems(maps, items, x).kind # "throw"
  /\ Returns(Construct(maps, items, x), "new", 0, x, "")

\* c.collect()
Collect(c) ==
  /\ steps < MaxSteps
  /\ Returns(collect(maps, items, c), "collect", c, Undef, "")

\* c.filter(p)
Filter(c, p) ==
  /\ steps < MaxSteps
  /\ Returns(filter(maps, items, c, p), "filter", c, Undef, p)

\* c.sort(cmp)
Sort(c, cmp) ==
  /\ steps < MaxSteps
  /\ Returns(sort(maps, items, c, cmp), "sort", c, Undef, cmp)

\* c.values()
Values(c) ==
  /\ steps < MaxSteps
  /\ Returns(values(maps, items, c), "values", c, Undef, "")

\* c.map(f)
Map(c, f) ==
  /\ steps < MaxSteps
  /\ Returns(map(maps, items, c, f), "map", c, Undef, f)

\* c.concat(src)
Concat(c, src) ==
  /\ steps < MaxSteps
  /\ ConcatReturns(maps, items, c, src)
  /\ Returns(concat(maps, items, c, src), "concat", c, src, "")

\* c.push(...vs)
Push(c, vs) ==
  /\ steps < MaxSteps
  /\ LET h == push(maps, items, c, vs)
     IN /\ maps' = h.maps
        /\ items' = h.items
        /\ ev' = Event("push", c, c, Arr(vs), Undef, "")
        /\ steps' = steps + 1

\* c.put(k, v)
Put(c, k, v) ==
  /\ steps < MaxSteps
  /\ LET h == put(maps, items, c, k, v)
     IN /\ maps' = h.maps
        /\ items' = h.items
        /\ ev' = Event("put", c, c, k, v, "")
        /\ steps' = steps + 1

Next ==
  \/ \E x \in Inputs : New(x)
  \/ \E c \in Cols : Collect(c)
  \/ \E c \in Cols, p \in FilterCallbacks : Filter(c, p)
  \/ \E c \in Cols, cmp \in SortCallbacks : Sort(c, cmp)
  \/ \E c \in Cols : Values(c)
  \/ \E c \in Cols, f \in MapCallbacks : Map(c, f)
  \/ \E c \in Cols, src \in Inputs : Concat(c, src)
  \/ \E c \in Cols, vs \in PushArgs : Push(c, vs)
  \/ \E c \in Cols, k \in PutKeys, v \in PutValues : Put(c, k, v)

Spec == Init /\ [][Next]_vars

-----------------------------------------------------------------------------
(* The path helpers: value, isAccessible, isTraversable, exists, dataGet.  *)
(* Property names of the prototypes (method names) are not among the       *)
(* segments used; `length` of arrays and strings and the `items` field of  *)
(* a Collection are.                                                       *)

LengthKey == <<"l", "e", "n", "g", "t", "h">>
ItemsKey == <<"i", "t", "e", "m", "s">>
Star == <<"*">>

\* value(value_): a function is called, anything else is returned
value(v) == IF v.t = "fun" THEN v.r ELSE v

isAccessible(v) == Truthy(v) /\ (v.t = "arr" \/ TypeOf(v) = "object")

\* an array, or an object with Symbol.iterator (a Map, a Collection, an iterator)
isTraversable(v) ==
  v.t = "arr" \/ (Truthy(v) /\ TypeOf(v) = "object" /\ v.t \in {"map", "col", "iter"})

\* key in data, for data of type object
In(seg, v) ==
  CASE v.t = "arr" -> \/ (IsIndexKey(seg) /\ ParseInt(seg).n < Len(v.a))
                      \/ seg = LengthKey
    [] v.t = "obj" -> HasKey(v.e, Str(seg))
    [] v.t = "col" -> seg = ItemsKey
    [] OTHER -> FALSE

\* exists(data, key)
exists(ms, its, v, seg) ==
  (v.t = "col" /\ has(ms[its[v.id]], Str(seg))) \/ In(seg, v)

\* data[seg] for data other than undefined and null
PropGet(its, v, seg) ==
  CASE v.t = "arr" -> IF IsIndexKey(seg) THEN ElemAt(v.a, ParseInt(seg).n)
                      ELSE IF seg = LengthKey THEN Num(Len(v.a)) ELSE Undef
    [] v.t = "str" -> IF IsIndexKey(seg)
                      THEN (IF ParseInt(seg).n < Len(v.s)
                            THEN Str(<<v.s[ParseInt(seg).n + 1]>>) ELSE Undef)
                      ELSE IF seg = LengthKey THEN Num(Len(v.s)) ELSE Undef
    [] v.t = "obj" -> MapGet(v.e, Str(seg))
    [] v.t = "col" -> IF seg = ItemsKey THEN MapRef(its[v.id]) ELSE Undef
    [] OTHER -> Undef

\* target[Number.parseInt(segment, 10)] of an array
IndexGet(a, seg) == IF ParseInt(seg).nan THEN Undef ELSE ElemAt(a, ParseInt(seg).n)

\* Object.values(target): the elements of an array, the property values of a
\* plain object, nothing for a Map or an iterator
ObjectValues(v) ==
  IF v.t = "arr" THEN v.a ELSE IF v.t = "obj" THEN ValuesOf(v.e) ELSE <<>>

RECURSIVE Flat(_)
\* result.flat(): one level of arrays is opened
Flat(a) ==
  IF Len(a) = 0 THEN <<>>
  ELSE (IF a[1].t = "arr" THEN a[1].a ELSE <<a[1]>>) \o Flat(Tail(a))

RECURSIVE Walk(_, _, _, _, _)
\* the loop of dataGet over the segments segs, from target on
Walk(ms, its, target, segs, fallback) ==
  IF Len(segs) = 0 THEN target
  ELSE LET segment == segs[1]
           remaining == Tail(segs)
       IN IF Len(segment) = 0 THEN target
          ELSE IF segment = Star
          THEN LET t == IF target.t = "col" THEN all(ms, its[target.id]) ELSE target
               IN IF target.t # "col" /\ ~isTraversable(target) THEN value(fallback)
                  ELSE LET result == [i \in 1..Len(ObjectValues(t)) |->
                                        Walk(ms, its, ObjectValues(t)[i], remaining, fallback)]
                       IN IF \E i \in 1..Len(result) : result[i] = Throw THEN Throw
                          ELSE IF \E i \in 1..Len(remaining) : remaining[i] = Star
                          THEN Arr(Flat(result))
                          ELSE Arr(result)
          ELSE IF isAccessible(target) /\ exists(ms, its, target, segment)
          THEN LET t == IF target.t = "arr" THEN IndexGet(target.a, segment) ELSE target
               IN IF t.t \in {"undef", "null"} THEN Throw
                  ELSE Walk(ms, its, PropGet(its, t, segment), remaining, fallback)
          ELSE value(fallback)

\* the segments of a key: an array as it is, anything else key.toString().split('.')
KeySegments(key) ==
  IF key.t = "arr" THEN [i \in 1..Len(key.a) |-> key.a[i].s] ELSE Split(JsString(key))

\* dataGet(target, key, fallback)
dataGet(ms, its, target, key, fallback) ==
  IF ~Truthy(key) THEN target
  ELSE Walk(ms, its, target, KeySegments(key), fallback)

-----------------------------------------------------------------------------
(* A client of dataGet: the targets are plain structures and the two       *)
(* Collections of the heap built by                                        *)
(*   collect({price: 5, user: collect({name: 'John'}), email: undefined})  *)

SUsers == Str(<<"u", "s", "e", "r", "s">>)
SName == Str(<<"n", "a", "m", "e">>)
SAge == Str(<<"a", "g", "e">>)
SPrice == Str(<<"p", "r", "i", "c", "e">>)
SUser == Str(<<"u", "s", "e", "r">>)
SEmail == Str(<<"e", "m", "a", "i", "l">>)
SFoo == Str(<<"f", "o", "o">>)
STaylor == Str(<<"T", "a", "y", "l", "o", "r">>)
SOtwell == Str(<<"O", "t", "w", "e", "l", "l">>)
SJohn == Str(<<"J", "o", "h", "n">>)
SFallbackText == Str(<<"f", "a", "l", "l", "b", "a", "c", "k">>)

GetHeap ==
  LET h == Construct(<<>>, <<>>, Obj(<< <<SName, SJohn>> >>))
  IN Construct(h.maps, h.items,
               Obj(<< <<SPrice, Num(5)>>, <<SUser, Col(1)>>, <<SEmail, Undef>> >>))

GetTargets ==
  { Obj(<< <<SUsers, Obj(<< <<SName, Arr(<<STaylor, SOtwell>>)>> >>)>> >>),
    Arr(<<Obj(<< <<SUsers, Arr(<<Obj(<< <<SName, STaylor>> >>)>>)>> >>)>>),
    Obj(<< <<SName, SJohn>>, <<SAge, Undef>> >>),
    Arr(<<Obj(<< <<SName, STaylor>> >>), Obj(<< <<SAge, Num(3)>> >>)>>),
    Arr(<<Arr(<<Num(1), Num(2)>>), Arr(<<Num(3)>>)>>),
    Col(1),
    Col(2),
    Num(5),
    Undef }

GetKeys ==
  { Str(<<"u", "s", "e", "r", "s", ".", "n", "a", "m", "e", ".", "0">>),
    Str(<<"u", "s", "e", "r", "s", ".", "n", "a", "m", "e", ".", "1">>),
    Str(<<"u", "s", "e", "r", "s", ".", "n", "a", "m", "e">>),
    Str(<<"u", "s", "e", "r", "s", ".", "n", "a", "m", "e", ".", "5">>),
    Str(<<"0", ".", "u", "s", "e", "r", "s", ".", "0", ".", "n", "a", "m", "e">>),
    Str(<<"0", ".", "u", "s", "e", "r", "s">>),
    Str(<<"0">>),
    Str(<<"1", ".", "0">>),
    Str(<<"n", "a", "m", "e">>),
    Str(<<"a", "g", "e">>),
    Str(<<"p", "r", "i", "c", "e">>),
    Str(<<"u", "s", "e", "r", ".", "n", "a", "m", "e">>),
    Str(<<"u", "s", "e", "r", ".", "f", "o", "o">>),
    Str(<<"f", "o", "o">>),
    Str(<<"e", "m", "a", "i", "l">>),
    Str(<<"i", "t", "e", "m", "s">>),
    Str(<<"*", ".", "n", "a", "m", "e">>),
    Str(<<"*", ".", "*">>),
    Str(<<"*">>),
    Str(<<"u", "s", "e", "r", "s", ".", ".", "n", "a", "m", "e">>),
    Arr(<<SUsers, SName, Str(<<"0">>)>>),
    Arr(<<>>),
    Str(<<>>),
    Num(0),
    Num(1),
    Undef }

GetFallbacks == { Undef, SFallbackText, Fun(SFallbackText) }

InitGet ==
  /\ maps = GetHeap.maps
  /\ items = GetHeap.items
  /\ ev = Event("init", 0, 0, Undef, Undef, "")
  /\ steps = 0

\* dataGet(target, key, fallback)
DataGet(target, key, fallback) ==
  /\ ev' = [op |-> "dataGet", target |-> target, key |-> key, fallback |-> fallback,
            result |-> dataGet(maps, items, target, key, fallback)]
  /\ UNCHANGED <<maps, items, steps>>

NextGet == \E target \in GetTargets, key \in GetKeys, fallback \in GetFallbacks :
             DataGet(target, key, fallback)

SpecGet == InitGet /\ [][NextGet]_vars

-----------------------------------------------------------------------------
(* The path helpers that write: dataSet, dataFill, dataForget.  They       *)
(* change their target in place and return it; the model computes the      *)
(* value returned.  An assignment to a list is modelled at an index up to  *)
(* its length: the client below writes no named property and no index     *)
(* past the end into a list, and it holds no Collection.                   *)

UndefinedKey == <<"u", "n", "d", "e", "f", "i", "n", "e", "d">>

\* target[segment] = x, for a plain object and for an index of an array
Assign(target, segment, x) ==
  CASE target.t = "obj" -> Obj(PropSet(target.e, Str(segment), x))
    [] target.t = "arr" /\ IsIndexKey(segment) /\ ParseInt(segment).n < Len(target.a) ->
         Arr([target.a EXCEPT ![ParseInt(segment).n + 1] = x])
    [] target.t = "arr" /\ IsIndexKey(segment) /\ ParseInt(segment).n = Len(target.a) ->
         Arr(Append(target.a, x))

\* Object.fromEntries(target.entries()) of an array
ArrayToObject(a) == ObjectFromEntries([i \in 1..Len(a) |-> <<Num(i - 1), a[i]>>])

RECURSIVE SetWalk(_, _, _, _, _, _)
\* dataSet once the key is split: segs[1] is the shifted segment
SetWalk(ms, its, target, segs, v, overwrite) ==
  LET segment == segs[1]
      segments == Tail(segs)
  IN IF segment = Star
     THEN LET t == IF isAccessible(target) THEN target ELSE Obj(<<>>)
          IN IF Len(segments) > 0
             THEN CASE t.t = "arr" ->
                         Arr([i \in 1..Len(t.a) |->
                                SetWalk(ms, its, t.a[i], segments, v, overwrite)])
                    [] t.t = "obj" ->
                         Obj([i \in 1..Len(t.e) |->
                                <<t.e[i][1], SetWalk(ms, its, t.e[i][2], segments, v, overwrite)>>])
             ELSE IF overwrite
             THEN CASE t.t = "arr" -> Arr([i \in 1..Len(t.a) |-> v])
                    [] t.t = "obj" -> Obj([i \in 1..Len(t.e) |-> <<t.e[i][1], v>>])
             ELSE t
     ELSE IF isAccessible(target)
     THEN IF Len(segments) > 0
          THEN Assign(target, segment,
                      SetWalk(ms, its,
                              IF exists(ms, its, target, segment)
                              THEN PropGet(its, target, segment) ELSE Obj(<<>>),
                              segments, v, overwrite))
          ELSE IF overwrite \/ ~exists(ms, its, target, segment)
          THEN Assign(IF target.t = "arr" THEN ArrayToObject(target.a) ELSE target,
                      segment, v)
          ELSE target
     ELSE IF Len(segments) > 0
     THEN Obj(<< <<Str(segment), SetWalk(ms, its, Undef, segments, v, overwrite)>> >>)
     ELSE IF overwrite THEN Obj(<< <<Str(segment), v>> >>)
     ELSE Obj(<<>>)

\* the segments after key.toString().split('.'); shift() of an empty array
\* gives undefined, which names the property 'undefined'
SetSegments(key) ==
  IF Len(KeySegments(key)) = 0 THEN <<UndefinedKey>> ELSE KeySegments(key)

\* dataSet with the overwrite argument ignored: an existing value is kept
dataSetKeeping(ms, its, target, key, v, overwrite) ==
  SetWalk(ms, its, target, SetSegments(key), v, FALSE)

\* dataSet(target, key, value, overwrite)
dataSet(ms, its, target, key, v, overwrite) ==
  SetWalk(ms, its, target, SetSegments(key), v, overwrite)

\* dataFill(target, key, newValue)
dataFill(ms, its, target, key, newValue) ==
  dataSet(ms, its, target, key, newValue, FALSE)

\* a.splice(start, 1), start being the result of Number.parseInt
Splice(a, start) ==
  LET s == IF start.nan THEN 0
           ELSE IF start.n < 0 THEN (IF Len(a) + start.n < 0 THEN 0 ELSE Len(a) + start.n)
           ELSE IF start.n > Len(a) THEN Len(a) ELSE start.n
  IN SubSeq(a, 1, s) \o SubSeq(a, s + 2, Len(a))

\* delete obj[k]
Delete(e, k) == SelectSeq(e, LAMBDA p : p[1] # k)

\* the removal at the end of the loop body of dataForget
Remove(target, part) ==
  IF target.t = "arr" THEN Arr(Splice(target.a, ParseInt(part)))
  ELSE Obj(Delete(target.e, Str(part)))

RECURSIVE Descend(_, _, _)
\* while (parts.length > 1): the target moves to target[part] when that is
\* accessible
Descend(its, target, parts) ==
  IF Len(parts) <= 1 THEN target
  ELSE Descend(its,
               IF PropGet(its, target, parts[1]) # Undef
                  /\ isAccessible(PropGet(its, target, parts[1]))
               THEN PropGet(its, target, parts[1]) ELSE target,
               Tail(parts))

\* the body of the loop `for (const segment of segments)` of dataForget
ForgetSegment(ms, its, target, segment) ==
  IF exists(ms, its, target, segment) THEN Remove(target, segment)
  ELSE Remove(Descend(its, target, Split(segment)),
              Split(segment)[Len(Split(segment))])

RECURSIVE ForgetSegments(_, _, _, _)
ForgetSegments(ms, its, target, segments) ==
  IF Len(segments) = 0 THEN target
  ELSE ForgetSegments(ms, its, ForgetSegment(ms, its, target, segments[1]), Tail(segments))

RECURSIVE ForgetWalk(_, _, _, _)
\* dataForget once the key is split: segs[1] is the shifted segment
ForgetWalk(ms, its, target, segs) ==
  LET segment == segs[1]
      segments == Tail(segs)
  IN IF segment = Star /\ isAccessible(target)
     THEN IF Len(segments) > 0
          THEN CASE target.t = "arr" ->
                      Arr([i \in 1..Len(target.a) |->
                             ForgetWalk(ms, its, target.a[i], segments)])
                 [] target.t = "obj" ->
                      Obj([i \in 1..Len(target.e) |->
                             <<target.e[i][1], ForgetWalk(ms, its, target.e[i][2], segments)>>])
          ELSE target
     ELSE IF isAccessible(target)
     THEN IF Len(segments) > 0 /\ exists(ms, its, target, segment)
          THEN Assign(target, segment,
                      ForgetWalk(ms, its, PropGet(its, target, segment), segments))
          ELSE ForgetSegments(ms, its, target,
                              IF Len(segments) = 0 THEN <<segment>> ELSE segments)
     ELSE target

\* dataForget(target, key)
dataForget(ms, its, target, key) ==
  ForgetWalk(ms, its, target, SetSegments(key))

-----------------------------------------------------------------------------
(* A client of dataSet, dataFill and dataForget: plain records, lists and  *)
(* scalars as targets, one call per step, the structure returned kept in   *)
(* the event.                                                              *)

SBar == Str(<<"b", "a", "r">>)
SBaz == Str(<<"b", "a", "z">>)
SHello == Str(<<"h", "e", "l", "l", "o">>)
SWorld == Str(<<"w", "o", "r", "l", "d">>)
SBoom == Str(<<"b", "o", "o", "m">>)

SetRecords ==
  { Obj(<< <<SFoo, SBar>> >>),
    Obj(<< <<SFoo, SBar>>, <<SHello, SWorld>> >>),
    Obj(<< <<SUsers, Obj(<< <<SName, Arr(<<STaylor, SOtwell>>)>> >>)>> >>),
    Obj(<< <<SBar, Arr(<<Obj(<< <<SBaz, Num(1)>> >>), Arr(<<>>)>>)>> >>),
    Obj(<< <<SFoo, Obj(<< <<SBar, Num(1)>>, <<SBaz, Undef>> >>)>>, <<SBaz, Null>> >>) }

SetLists ==
  { Arr(<<Num(1), Num(2)>>),
    Arr(<<Obj(<< <<KeyA, Num(1)>> >>), Obj(<< <<KeyA, Num(2)>>, <<KeyB, Num(3)>> >>)>>) }

SetScalars == { Undef, Null, Num(5), SBar }

\* paths written with names
NamedKeys ==
  { Str(<<"f", "o", "o">>),
    Str(<<"b", "a", "z">>),
    Str(<<"f", "o", "o", ".", "b", "a", "r">>),
    Str(<<"f", "o", "o", ".", "b", "a", "z">>),
    Str(<<"b", "a", "z", ".", "b", "a", "r">>),
    Str(<<"f", "o", "o", ".", "b", "a", "r", ".", "b", "o", "o", "m">>),
    Str(<<"u", "s", "e", "r", "s", ".", "n", "a", "m", "e", ".", "0">>),
    Str(<<"u", "s", "e", "r", "s", ".", "n", "a", "m", "e", ".", "2">>),
    Str(<<"u", "s", "e", "r", "s", ".", "n", "a", "m", "e", ".", "f", "i", "r", "s", "t">>),
    Str(<<"u", "s", "e", "r", "s", ".", "a", "g", "e">>),
    Str(<<"b", "a", "r", ".", "*", ".", "b", "a", "z">>),
    Str(<<"b", "a", "r", ".", "*">>),
    Str(<<"f", "o", "o", ".", "*">>),
    Str(<<"n", "o", "t", "h", "i", "n", "g", ".", "f", "o", "o">>),
    Str(<<"b", "a", "r", ".", "0", ".", "b", "a", "z">>),
    Str(<<"b", "a", "r", ".", "1">>),
    Str(<<"h", "e", "l", "l", "o">>),
    Arr(<<SUsers, SName, Str(<<"1">>)>>) }

\* paths written with positions
PositionKeys ==
  { Str(<<"0">>),
    Str(<<"1">>),
    Str(<<"2">>),
    Str(<<"x">>),
    Str(<<"5">>),
    Str(<<"-", "1">>),
    Str(<<"1", "a">>),
    Str(<<"*">>),
    Str(<<"*", ".", "a">>),
    Str(<<"0", ".", "a">>),
    Str(<<"1", ".", "b">>),
    Str(<<"2", ".", "a">>),
    Num(0),
    Num(1) }

\* the calls made: every key on a record or a scalar, the keys written with
\* positions on a list
SetCalls ==
  ((SetRecords \cup SetScalars) \X (NamedKeys \cup PositionKeys))
    \cup (SetLists \X PositionKeys)

SetValues == { SBoom, Num(9) }

InitSet ==
  /\ maps = <<>>
  /\ items = <<>>
  /\ ev = [op |-> "init", target |-> Undef, key |-> Undef, value |-> Undef, result |-> Undef]
  /\ steps = 0

\* dataSet(target, key, value)
DataSet(target, key, v) ==
  /\ ev' = [op |-> "dataSet", target |-> target, key |-> key, value |-> v,
            result |-> dataSet(maps, items, target, key, v, TRUE)]
  /\ UNCHANGED <<maps, items, steps>>

\* dataFill(target, key, newValue)
DataFill(target, key, v) ==
  /\ ev' = [op |-> "dataFill", target |-> target, key |-> key, value |-> v,
            result |-> dataFill(maps, items, target, key, v)]
  /\ UNCHANGED <<maps, items, steps>>

\* dataForget(target, key)
DataForget(target, key) ==
  /\ ev' = [op |-> "dataForget", target |-> target, key |-> key, value |-> Undef,
            result |-> dataForget(maps, items, target, key)]
  /\ UNCHANGED <<maps, items, steps>>

NextSet ==
  \/ \E call \in SetCalls, v \in SetValues : DataSet(call[1], call[2], v)
  \/ \E call \in SetCalls, v \in SetValues : DataFill(call[1], call[2], v)
  \/ \E call \in SetCalls : DataForget(call[1], call[2])

SpecSet == InitSet /\ [][NextSet]_vars

-----------------------------------------------------------------------------
(* Collection: the operations that take a callback, a default value or a   *)
(* second source.  A callback is a function value with a name; it is pure. *)

Cb(name) == [t |-> "fun", cb |-> name]

\* operatorForWhere applied to the argument list args: a function is returned
\* as it is, anything else gives the closure over (key, operator, value)
operatorForWhere(args) ==
  IF Len(args) > 0 /\ TypeOf(args[1]) = "function" THEN args[1]
  ELSE [t |-> "fun", cb |-> "where",
        key |-> IF Len(args) > 0 THEN args[1] ELSE Undef,
        operator |-> IF Len(args) \in {1, 2} THEN Str(<<"=">>)
                     ELSE IF Len(args) = 3 THEN args[2] ELSE Undef,
        val |-> IF Len(args) = 1 THEN Bool(TRUE)
                ELSE IF Len(args) = 2 THEN args[2]
                ELSE IF Len(args) = 3 THEN args[3] ELSE Undef]

\* Number(s) of a string of the model: decimal digits with an optional sign
ToNumber(s) ==
  IF Len(s) = 0 THEN Int32(0)
  ELSE IF \A i \in 1..Len(s) : IsDigit(s[i]) \/ (i = 1 /\ s[i] = "-" /\ Len(s) > 1)
  THEN ParseInt(s) ELSE NaN

\* a == b for primitives
LooseEq(a, b) ==
  IF a.t = b.t THEN a = b
  ELSE IF a.t \in {"undef", "null"} \/ b.t \in {"undef", "null"}
  THEN a.t \in {"undef", "null"} /\ b.t \in {"undef", "null"}
  ELSE IF a.t = "num" /\ b.t = "str" THEN ToNumber(b.s) = Int32(a.n)
  ELSE IF a.t = "str" /\ b.t = "num" THEN ToNumber(a.s) = Int32(b.n)
  ELSE FALSE

\* the switch of the closure of operatorForWhere on the retrieved value.  The
\* operators <, >, <= and >= are compared on numbers; on other operands they
\* are false.
WhereSwitch(retrieved, op, val) ==
  LET both == <<retrieved, val>>
      strings == {i \in 1..2 : TypeOf(both[i]) \in {"string", "object"}}
      objects == {i \in 1..2 : TypeOf(both[i]) = "object"}
      numbers == retrieved.t = "num" /\ val.t = "num"
  IN IF Cardinality(strings) < 2 /\ Cardinality(objects) = 1
     THEN Bool(op \in {Str(<<"!", "=">>), Str(<<"<", ">">>), Str(<<"!", "=", "=">>)})
     ELSE CASE op \in {Str(<<"!", "=">>), Str(<<"<", ">">>)} -> Bool(~LooseEq(retrieved, val))
            [] op = Str(<<"<">>) -> Bool(numbers /\ retrieved.n < val.n)
            [] op = Str(<<">">>) -> Bool(numbers /\ retrieved.n > val.n)
            [] op = Str(<<"<", "=">>) -> Bool(numbers /\ retrieved.n <= val.n)
            [] op = Str(<<">", "=">>) -> Bool(numbers /\ retrieved.n >= val.n)
            [] op = Str(<<"=", "=", "=">>) -> Bool(retrieved = val)
            [] op = Str(<<"!", "=", "=">>) -> Bool(retrieved # val)
            [] OTHER -> Bool(LooseEq(retrieved, val))

\* the body of the closure of operatorForWhere, on item
Where(ms, its, f, item) ==
  WhereSwitch(dataGet(ms, its, item, f.key, Undef), f.operator, f.val)

\* the callbacks handed to first, last, contains, containsStrict and each:
\*   falsy   (value) => !value
\*   big     (value) => typeof value === 'number' && value > 1
\*   first   (value, key) => key === 0
\*   isNull  (value) => value === null
\*   named   (value, key) => Number.isNaN(Number.parseInt(key)) ? false : undefined
\*   zero    () => 0
\*   never   () => false
Predicates == {Cb("falsy"), Cb("big"), Cb("first"), Cb("isNull"), Cb("never")}

EachCallbacks == {Cb("named"), Cb("zero"), Cb("never"), Cb("falsy"), Cb("isNull")}

\* callback(value, key)
Call(ms, its, f, v, k) ==
  CASE f.cb = "where" -> Where(ms, its, f, v)
    [] f.cb = "falsy" -> Bool(~Truthy(v))
    [] f.cb = "big" -> Bool(v.t = "num" /\ v.n > 1)
    [] f.cb = "first" -> Bool(k = Num(0))
    [] f.cb = "isNull" -> Bool(v = Null)
    [] f.cb = "named" -> IF ParseInt(JsString(k)).nan THEN Bool(FALSE) ELSE Undef
    [] f.cb = "zero" -> Num(0)
    [] OTHER -> Bool(FALSE)

\* get(key, fallback)
get(e, key, fallback) == IF has(e, key) THEN MapGet(e, key) ELSE value(fallback)

\* the loop of first: the value of the earliest entry among hits, the
\* positions at which the callback is truthy
FirstHit(e, hits, defaultValue) ==
  IF hits = {} THEN value(defaultValue)
  ELSE e[CHOOSE i \in hits : \A j \in hits : i <= j][2]

\* first(callback, defaultValue) of the Collection holding entry list e
first(ms, its, e, callback, defaultValue) ==
  IF ~Truthy(callback)
  THEN (IF count(e) = 0 THEN value(defaultValue) ELSE e[1][2])
  ELSE FirstHit(e, {i \in 1..Len(e) : Truthy(Call(ms, its, callback, e[i][2], e[i][1]))},
                defaultValue)

\* [...this.items].reverse()
Reverse(e) == [i \in 1..Len(e) |-> e[Len(e) + 1 - i]]

\* reverse()
reverse(ms, its, c) == Construct(ms, its, Arr(PairArrays(Reverse(entries(ms[its[c]])))))

\* the entry list of the Collection a call has just returned in heap h
Result(h) == h.maps[h.items[Len(h.items)]]

\* v ?? fallback
Coalesce(v, fallback) == IF v.t \in {"undef", "null"} THEN fallback ELSE v

\* last(callback, defaultValue)
last(ms, its, c, callback, defaultValue) ==
  IF ~Truthy(callback)
  THEN Coalesce(get(Result(values(ms, its, c)), Num(count(ms[its[c]]) - 1), Undef),
                value(defaultValue))
  ELSE first(ms, its, Result(reverse(ms, its, c)), callback, defaultValue)

\* the object `placeholder` of contains: identical to no other value
Placeholder == [t |-> "obj", e |-> <<>>, ref |-> "placeholder"]

\* contains with the predicate's result read as `first(key) !== null`
containsNotNull(ms, its, c, key) ==
  IF key = Undef \/ TypeOf(key) = "function"
  THEN first(ms, its, ms[its[c]], operatorForWhere(SelectSeq(<<key>>, LAMBDA a : a # Undef)),
             Undef) # Null
  ELSE \E i \in 1..Len(ms[its[c]]) : ms[its[c]][i][2] = key

\* contains(key): the arguments that are undefined are dropped first
contains(ms, its, c, key) ==
  LET args == SelectSeq(<<key>>, LAMBDA a : a # Undef)
  IN IF Len(args) = 1 /\ TypeOf(key) # "function"
     THEN \E i \in 1..Len(ms[its[c]]) : ms[its[c]][i][2] = key
     ELSE first(ms, its, ms[its[c]], operatorForWhere(args), Placeholder) # Placeholder

\* containsStrict(key) with one argument
containsStrict(ms, its, c, key) ==
  IF TypeOf(key) = "function" THEN first(ms, its, ms[its[c]], key, Undef) # Null
  ELSE contains(ms, its, c, key)

\* doesntContain(item)
doesntContain(ms, its, c, item) == ~contains(ms, its, c, item)

\* filter with the callback given by its verdicts: keep[i] tells whether the
\* callback is truthy on the i-th entry
filterWith(ms, its, c, keep) ==
  LET e == entries(ms[its[c]])
      kept == SelectSeq([i \in 1..Len(e) |-> <<i, e[i]>>], LAMBDA x : keep[x[1]])
  IN Construct(ms, its, Arr(PairArrays([i \in 1..Len(kept) |-> kept[i][2]])))

\* a Map that is held by no Collection, given by its entries
MapOf(e) == [t |-> "map", e |-> e]

\* toArray() of the Collection holding entry list e: values().all()
toArray(e) ==
  LET vs == ArrayCase(ValuesOf(e))
  IN IF isArray(vs) THEN Arr(ValuesOf(vs)) ELSE MapOf(vs)

\* value.split('.') of a string path, any other path as it is
PathOf(p) ==
  IF p.t = "str" THEN Arr([i \in 1..Len(Split(p.s)) |-> Str(Split(p.s)[i])]) ELSE p

\* the key that pluck puts a value under: an object found is turned into a string
PluckKey(found) ==
  IF Truthy(found) /\ TypeOf(found) = "object" THEN Str(JsString(found)) ELSE found

\* the body of the loop of pluck, for one item
PluckItem(ms, its, results, itemValue, itemKey, key) ==
  IF ~Truthy(key) THEN push(ms, its, results, <<itemValue>>)
  ELSE put(ms, its, results, itemKey, itemValue)

RECURSIVE PluckItems(_, _, _, _, _, _)
\* the loop of pluck over the items vs from heap h on, results being the
\* Collection it fills
PluckItems(h, results, vs, v, k, key) ==
  IF Len(vs) = 0 THEN h
  ELSE PluckItems(PluckItem(h.maps, h.items, results,
                            dataGet(h.maps, h.items, vs[1], v, Undef),
                            PluckKey(dataGet(h.maps, h.items, vs[1], k, Undef)), key),
                  results, Tail(vs), v, k, key)

\* pluck(value, key) returns: no dataGet of the loop raises a TypeError
PluckReturns(ms, its, c, val, key) ==
  \A i \in 1..Len(ms[its[c]]) :
    /\ dataGet(ms, its, ms[its[c]][i][2], PathOf(val), Undef) # Throw
    /\ Truthy(key) => dataGet(ms, its, ms[its[c]][i][2], PathOf(key), Undef) # Throw

\* pluck(value, key)
pluck(ms, its, c, val, key) ==
  PluckItems(Construct(ms, its, Arr(<<>>)), Len(its) + 1, ValuesOf(ms[its[c]]),
             PathOf(val), PathOf(key), key)

RECURSIVE Tally(_, _, _)
\* collection.each((value) => counts.put(value, counts.get(value) ? counts.get(value) + 1 : 1))
\* from heap h on, over the values vs
Tally(h, counts, vs) ==
  IF Len(vs) = 0 THEN h
  ELSE Tally(put(h.maps, h.items, counts, vs[1],
                 IF Truthy(get(h.maps[h.items[counts]], vs[1], Undef))
                 THEN Num(get(h.maps[h.items[counts]], vs[1], Undef).n + 1)
                 ELSE Num(1)),
             counts, Tail(vs))

\* mode: the keys of the most frequent values, from the filtered counts of h4
ModeOfHighest(h4) ==
  toArray(keys(Result(sort(h4.maps, h4.items, Len(h4.items), "none"))))

\* mode: from the sorted counts of h3, whose last value is highestValue
ModeOfSorted(h3) ==
  ModeOfHighest(filterWith(h3.maps, h3.items, Len(h3.items),
                           [i \in 1..Len(Result(h3)) |->
                              LooseEq(Result(h3)[i][2],
                                      last(h3.maps, h3.items, Len(h3.items), Undef, Undef))]))

\* mode: from the counts, the last Collection of h2
ModeOfCounts(h2) == ModeOfSorted(sort(h2.maps, h2.items, Len(h2.items), "none"))

\* mode: from the Collection whose values are counted
ModeOfValues(h0, collection) ==
  ModeOfCounts(Tally(Construct(h0.maps, h0.items, Arr(<<>>)), Len(h0.items) + 1,
                     ValuesOf(h0.maps[h0.items[collection]])))

\* mode(key)
mode(ms, its, c, key) ==
  IF count(ms[its[c]]) = 0 THEN Arr(<<>>)
  ELSE IF Truthy(key) THEN ModeOfValues(pluck(ms, its, c, key, Undef), Len(its) + 1)
  ELSE ModeOfValues(Heap(ms, its), c)

RECURSIVE CombineInto(_, _, _)
\* for (const value of values) m.set(keys.next().value, value)
CombineInto(m, ks, vs) ==
  IF Len(vs) = 0 THEN m
  ELSE CombineInto(MapSet(m, IF Len(ks) > 0 THEN ks[1] ELSE Undef, vs[1]),
                   IF Len(ks) > 0 THEN Tail(ks) ELSE ks, Tail(vs))

\* combine(values): the new Collection holds the Map m itself
combine(ms, its, c, vals) ==
  LET h == IF vals.t = "col" THEN values(ms, its, vals.id) ELSE Heap(ms, its)
      list == IF vals.t = "col" THEN all(h.maps, h.items[Len(h.items)]) ELSE vals
      vs == IF list.t = "arr" THEN list.a ELSE PairArrays(h.maps[list.id])
      m == CombineInto(<<>>, ValuesOf(ms[its[c]]), vs)
  IN Heap(Append(h.maps, m), Append(h.items, Len(h.maps) + 1))

\* the entries of getObjectableItems(x), x not being null
Normalised(ms, its, x) ==
  LET n == getObjectableItems(ms, its, x)
  IN IF n.kind = "alias" THEN ms[n.id] ELSE n.e

\* diff(items)
diff(ms, its, c, src) ==
  LET itemsValues == ValuesOf(Normalised(ms, its, src))
      e == ms[its[c]]
      h == filterWith(ms, its, c,
             [n \in 1..Len(e) |-> ~\E i \in 1..Len(itemsValues) : itemsValues[i] = e[n][2]])
  IN Construct(h.maps, h.items, Col(Len(h.items)))

\* diffAssoc(items)
diffAssoc(ms, its, c, src) ==
  LET itemsEntries == Normalised(ms, its, src)
      e == ms[its[c]]
      h == filterWith(ms, its, c,
             [n \in 1..Len(e) |-> ~\E i \in 1..Len(itemsEntries) :
                                     /\ itemsEntries[i][1] = e[n][1]
                                     /\ itemsEntries[i][2] = e[n][2]])
  IN Construct(h.maps, h.items, Col(Len(h.items)))

\* diffKeys(items)
diffKeys(ms, its, c, src) ==
  LET itemsKeys == KeysOf(Normalised(ms, its, src))
      e == ms[its[c]]
      h == filterWith(ms, its, c,
             [n \in 1..Len(e) |-> ~\E i \in 1..Len(itemsKeys) : itemsKeys[i] = e[n][1]])
  IN Construct(h.maps, h.items, Col(Len(h.items)))

\* the depth of flatten: a number, or Infinity
Depth(n) == [inf |-> FALSE, n |-> n]
Infinity == [inf |-> TRUE]

\* depth - 1
Less(depth) == IF depth.inf THEN depth ELSE Depth(depth.n - 1)

\* depth === 1
IsOne(depth) == ~depth.inf /\ depth.n = 1

RECURSIVE FlatTo(_, _)
\* a.flat(depth): arrays are opened while depth is at least 1
FlatTo(a, depth) ==
  IF Len(a) = 0 THEN <<>>
  ELSE (IF a[1].t = "arr" /\ (depth.inf \/ depth.n >= 1)
        THEN FlatTo(a[1].a, Less(depth)) ELSE <<a[1]>>)
       \o FlatTo(Tail(a), depth)

RECURSIVE FlattenResult(_, _, _, _)
RECURSIVE FlattenValues(_, _, _, _)
\* the inner loop of flatten over `values`: a Collection is replaced by the
\* values of its flatten(depth - 1), anything else is pushed as it is
FlattenValues(ms, its, vals, depth) ==
  IF Len(vals) = 0 THEN <<>>
  ELSE (IF vals[1].t = "col"
        THEN ValuesOf(ArrayCase(FlattenResult(ms, its, ValuesOf(ms[its[vals[1].id]]),
                                              Less(depth))))
        ELSE <<vals[1]>>)
       \o FlattenValues(ms, its, Tail(vals), depth)

\* the array `result` of flatten(depth) over the values vs of this
FlattenResult(ms, its, vs, depth) ==
  IF Len(vs) = 0 THEN <<>>
  ELSE LET item == IF vs[1].t = "col" THEN all(ms, its[vs[1].id]) ELSE vs[1]
           vals == IF IsOne(depth)
                   THEN (IF item.t = "map" THEN ValuesOf(ms[item.id]) ELSE ObjectValues(item))
                   ELSE IF item.t = "arr" THEN FlatTo(item.a, Less(depth))
                   ELSE FlatTo(ObjectValues(item), Less(depth))
       IN (IF TypeOf(item) # "object" \/ item = Null THEN <<item>>
           ELSE FlattenValues(ms, its, vals, depth))
          \o FlattenResult(ms, its, Tail(vs), depth)

\* flatten(depth)
flatten(ms, its, c, depth) ==
  Construct(ms, its, Arr(FlattenResult(ms, its, ValuesOf(ms[its[c]]), depth)))

\* each that stops at the first call returning a falsy value
eachUntilFalsy(ms, its, c, callback) ==
  LET e == entries(ms[its[c]])
      stops == {i \in 1..Len(e) : ~Truthy(Call(ms, its, callback, e[i][2], e[i][1]))}
  IN SubSeq(e, 1, IF stops = {} THEN Len(e) ELSE CHOOSE i \in stops : \A j \in stops : i <= j)

\* each(callback): the entries the callback is called with, in call order;
\* the loop breaks after the first call that returns false
each(ms, its, c, callback) ==
  LET e == entries(ms[its[c]])
      stops == {i \in 1..Len(e) : Call(ms, its, callback, e[i][2], e[i][1]) = Bool(FALSE)}
  IN SubSeq(e, 1, IF stops = {} THEN Len(e) ELSE CHOOSE i \in stops : \A j \in stops : i <= j)

-----------------------------------------------------------------------------
(* A client of these operations: it holds the Collections below and calls  *)
(* one method at a time.  The Collection a call returns is kept in the     *)
(* event by its entries; the Collections the call made on the way are      *)
(* dropped once it has returned.                                           *)

N0 == Num(0)
N3 == Num(3)
N4 == Num(4)
N5 == Num(5)
KeyC == Str(<<"c">>)
SKey == Str(<<"k", "e", "y">>)
SBrand == Str(<<"b", "r", "a", "n", "d">>)
SColor == Str(<<"c", "o", "l", "o", "r">>)
SSkill == Str(<<"s", "k", "i", "l", "l">>)
SX == Str(<<"x">>)
SY == Str(<<"y">>)

\* the values the Collections of the client are constructed from, in order
OpsInputs ==
  << Arr(<<N1, N2, N2, N1>>),                                  \* 1
     Arr(<<N2, N2, N1, N1>>),                                  \* 2
     Arr(<<>>),                                                \* 3
     Obj(<< <<Str(<<"0">>), N1>>, <<KeyA, N2>>, <<KeyB, N1>> >>),  \* 4: {0: 1, a: 2, b: 1}
     Arr(<<N1, N1, KeyA>>),                                    \* 5
     Arr(<<Undef, N1, Null>>),                                 \* 6
     Obj(<< <<KeyA, Arr(<<N1, N2>>)>> >>),                     \* 7
     Arr(<<N0, Str(<<"0", "2">>), N3>>),                       \* 8
     Arr(<<Arr(<<N1, Arr(<<N2, Arr(<<N3>>)>>)>>), N4>>),       \* 9: [[1, [2, [3]]], 4]
     Arr(<<Col(4), Arr(<<N5>>)>>),                             \* 10
     Arr(<<Arr(<<Col(9)>>)>>),                                 \* 11
     Arr(<<Obj(<< <<SKey, SX>> >>), SY>>),                     \* 12
     Arr(<<Obj(<< <<SBrand, N1>>, <<SColor, SX>> >>),
           Obj(<< <<SBrand, SY>>, <<SColor, KeyB>> >>),
           Obj(<< <<SBrand, SY>>, <<SColor, KeyC>> >>)>>),     \* 13
     Arr(<<Obj(<< <<SName, SX>>, <<SSkill, Obj(<< <<KeyB, Arr(<<N1, N2>>)>> >>)>> >>),
           Obj(<< <<SName, SY>> >>)>>),                        \* 14
     Arr(<<N3, N1, N2>>) >>                                    \* 15

RECURSIVE ConstructAll(_, _)
\* the heap after new Collection(x) for each x of xs in turn
ConstructAll(h, xs) ==
  IF Len(xs) = 0 THEN h
  ELSE ConstructAll(Construct(h.maps, h.items, xs[1]), Tail(xs))

OpsHeap == ConstructAll(Heap(<<>>, <<>>), OpsInputs)

\* a value compared by value in JavaScript too
IsPrimitive(v) == v.t \in {"num", "str", "bool", "undef", "null"}

\* the Collections all of whose values are primitive
PrimitiveCols == {c \in Cols : \A i \in 1..Len(maps[items[c]]) : IsPrimitive(maps[items[c]][i][2])}

\* arguments of the calls
Defaults == {Undef, SFallbackText, Fun(SFallbackText)}
Needles == {Undef, Null, N0, N1, KeyA, Str(<<"2">>)}
CombineArgs == {Arr(<<N4>>), Arr(<<N4, N5, N3>>), Arr(<<N4, N5, N3, N0, N1>>), Arr(<<>>),
                Col(15), Col(4)}
DiffArgs == {Arr(<<N1, N2, N4>>), Arr(<<>>), Obj(<< <<KeyA, N1>>, <<KeyB, N5>> >>),
             Col(4), Col(1), N1}
Depths == {Infinity, Depth(0), Depth(1), Depth(2), Depth(3)}
PluckValues == {SColor, SBrand, SName, Str(<<"s", "k", "i", "l", "l", ".", "b">>),
                Str(<<"s", "k", "i", "l", "l", ".", "b", ".", "0">>)}
PluckKeys == {Undef, SBrand, SName, SColor}

OpsEvent(op, c, x, y, result) == [op |-> op, c |-> c, x |-> x, y |-> y, result |-> result]

InitOps ==
  /\ maps = OpsHeap.maps
  /\ items = OpsHeap.items
  /\ ev = Event("init", 0, 0, Undef, Undef, "")
  /\ steps = 0

\* the call has returned result from heap h; what it allocated is dropped
Answers(h, op, c, x, y, result) ==
  /\ steps < MaxCalls
  /\ maps' = SubSeq(h.maps, 1, Len(maps))
  /\ items' = SubSeq(h.items, 1, Len(items))
  /\ ev' = OpsEvent(op, c, x, y, result)
  /\ steps' = steps + 1

\* c.mode(key)
Mode(c, key) ==
  /\ Truthy(key) => PluckReturns(maps, items, c, key, Undef)
  /\ Answers(Heap(maps, items), "mode", c, key, Undef, mode(maps, items, c, key))

\* c.last(callback, defaultValue)
Last(c, callback, defaultValue) ==
  Answers(Heap(maps, items), "last", c, callback, defaultValue,
          last(maps, items, c, callback, defaultValue))

\* c.containsStrict(key)
ContainsStrict(c, key) ==
  Answers(Heap(maps, items), "containsStrict", c, key, Undef,
          Bool(containsStrict(maps, items, c, key)))

\* c.contains(key)
Contains(c, key) ==
  Answers(Heap(maps, items), "contains", c, key, Undef, Bool(contains(maps, items, c, key)))

\* c.doesntContain(item)
DoesntContain(c, item) ==
  Answers(Heap(maps, items), "doesntContain", c, item, Undef,
          Bool(doesntContain(maps, items, c, item)))

\* c.combine(vals)
Combine(c, vals) ==
  LET h == combine(maps, items, c, vals)
  IN Answers(h, "combine", c, vals, Undef, Result(h))

\* c.diff(src)
Diff(c, src) ==
  LET h == diff(maps, items, c, src) IN Answers(h, "diff", c, src, Undef, Result(h))

\* c.diffAssoc(src)
DiffAssoc(c, src) ==
  LET h == diffAssoc(maps, items, c, src) IN Answers(h, "diffAssoc", c, src, Undef, Result(h))

\* c.diffKeys(src)
DiffKeys(c, src) ==
  LET h == diffKeys(maps, items, c, src) IN Answers(h, "diffKeys", c, src, Undef, Result(h))

\* c.flatten(depth)
Flatten(c, depth) ==
  LET h == flatten(maps, items, c, depth) IN Answers(h, "flatten", c, depth, Undef, Result(h))

\* c.sort(cmp), the Collection it returns being read at once
Sorted(c, cmp) ==
  LET h == sort(maps, items, c, cmp) IN Answers(h, "sorted", c, cmp, Undef, Result(h))

\* c.each(callback)
Each(c, callback) ==
  Answers(Heap(maps, items), "each", c, callback, Undef,
          [calls |-> each(maps, items, c, callback), returned |-> Col(c)])

\* c.pluck(val, key)
Pluck(c, val, key) ==
  /\ PluckReturns(maps, items, c, val, key)
  /\ LET h == pluck(maps, items, c, val, key) IN Answers(h, "pluck", c, val, key, Result(h))

NextOps ==
  \/ \E c \in PrimitiveCols, key \in {Undef} : Mode(c, key)
  \/ \E c \in PrimitiveCols \cup {7}, callback \in Predicates \cup {Undef}, d \in Defaults :
       Last(c, callback, d)
  \/ \E c \in PrimitiveCols, key \in Predicates \cup Needles : ContainsStrict(c, key)
  \/ \E c \in PrimitiveCols, key \in Predicates \cup Needles : Contains(c, key)
  \/ \E c \in PrimitiveCols, item \in Predicates \cup Needles : DoesntContain(c, item)
  \/ \E c \in PrimitiveCols, vals \in CombineArgs : Combine(c, vals)
  \/ \E c \in PrimitiveCols, src \in DiffArgs : Diff(c, src)
  \/ \E c \in PrimitiveCols, src \in DiffArgs : DiffAssoc(c, src)
  \/ \E c \in PrimitiveCols, src \in DiffArgs : DiffKeys(c, src)
  \/ \E c \in Cols, depth \in Depths : Flatten(c, depth)
  \/ \E c \in PrimitiveCols, cmp \in SortCallbacks : Sorted(c, cmp)
  \/ \E c \in Cols, callback \in EachCallbacks : Each(c, callback)
  \/ \E c \in Cols \ PrimitiveCols, val \in PluckValues, key \in PluckKeys : Pluck(c, val, key)

SpecOps == InitOps /\ [][NextOps]_vars

-----------------------------------------------------------------------------
(* Collection: range and median *)

\* range with the length taken as (last - first) / step
rangeHalfOpen(ms, its, start, stop, step) ==
  Construct(ms, its,
    Arr([index \in 1..((IF start > stop THEN start - stop ELSE stop - start) \div step) |->
           IF start > stop THEN Num(start - (index - 1) * step)
           ELSE Num(start + (index - 1) * step)]))

\* Collection.range(start, stop, step) for integers and step > 0: Array.from
\* truncates the length (last - first) / step + 1 to an integer
range(ms, its, start, stop, step) ==
  Construct(ms, its,
    Arr([index \in 1..((IF start > stop THEN start - stop ELSE stop - start) \div step + 1) |->
           IF start > stop THEN Num(start - (index - 1) * step)
           ELSE Num(start + (index - 1) * step)]))

\* Number.isNaN(Number.parseFloat(s)) for a string of the model: after blanks
\* and a sign there is neither a digit nor a point followed by a digit
ParseFloatIsNaN(s) ==
  LET i == SkipBlanks(s, 1)
      j == IF i <= Len(s) /\ s[i] \in {"-", "+"} THEN i + 1 ELSE i
  IN ~(\/ j <= Len(s) /\ IsDigit(s[j])
       \/ j < Len(s) /\ s[j] = "." /\ IsDigit(s[j + 1]))

\* the number NaN, and the number k / 2
NotANumber == [t |-> "num", nan |-> TRUE]
Half(k) == IF k % 2 = 0 THEN Num(k \div 2) ELSE [t |-> "num", twice |-> k]

\* (a + b) / 2: + adds two numbers and concatenates as soon as one operand is
\* a string; the division turns the string into a number
MeanOf(a, b) ==
  IF a.t = "num" /\ b.t = "num" THEN Half(a.n + b.n)
  ELSE IF ToNumber(JsString(a) \o JsString(b)).nan THEN NotANumber
  ELSE Half(ToNumber(JsString(a) \o JsString(b)).n)

\* median: from the entries of values, the re-keyed sorted numeric values
MedianOfValues(e) ==
  IF count(e) = 0 THEN NotANumber
  ELSE IF count(e) % 2 = 1 THEN get(e, Num(count(e) \div 2), Undef)
  ELSE MeanOf(get(e, Num(count(e) \div 2 - 1), Undef), get(e, Num(count(e) \div 2), Undef))

\* median: .values() of the sorted Collection, the last of h
MedianOfSorted(h) == MedianOfValues(Result(values(h.maps, h.items, Len(h.items))))

\* median: .sort() of the filtered Collection, the last of h
MedianOfFiltered(h) == MedianOfSorted(sort(h.maps, h.items, Len(h.items), "none"))

\* median: .filter((v) => !Number.isNaN(Number.parseFloat(v))) of collection
MedianOf(h, collection) ==
  MedianOfFiltered(filterWith(h.maps, h.items, collection,
                     [i \in 1..Len(h.maps[h.items[collection]]) |->
                        ~ParseFloatIsNaN(JsString(h.maps[h.items[collection]][i][2]))]))

\* median(key)
median(ms, its, c, key) ==
  IF Truthy(key) THEN MedianOf(pluck(ms, its, c, key, Undef), Len(its) + 1)
  ELSE MedianOf(Heap(ms, its), c)

-----------------------------------------------------------------------------
(* A client of the constructor, of range and of median over a fixed heap   *)

\* the values the Collections of this client are constructed from, in order
NewInputs ==
  << Arr(<<N3, N1, N2>>),                                      \* 1
     Arr(<<N4, N1, N3, N2>>),                                  \* 2
     Arr(<<>>),                                                \* 3
     Arr(<<KeyA, N1, Undef, N3>>),                             \* 4
     Arr(<<Str(<<"1">>), Str(<<"3">>)>>),                      \* 5: ['1', '3']
     Arr(<<Obj(<< <<KeyA, N1>> >>), Obj(<< <<KeyA, N3>> >>),
           Obj(<< <<KeyA, N2>> >>)>>),                         \* 6: [{a: 1}, {a: 3}, {a: 2}]
     Obj(<< <<KeyA, N5>>, <<KeyB, N1>>, <<KeyC, N3>> >>),      \* 7: {a: 5, b: 1, c: 3}
     Arr(<<SX, Null>>),                                        \* 8
     Arr(<<N3, Str(<<"2">>), N1>>),                            \* 9: [3, '2', 1]
     Arr(<<N1, N2, N3>>),                                      \* 10
     Arr(<<Obj(<< <<KeyA, N1>> >>), Obj(<< <<KeyB, N3>> >>),
           Obj(<< <<KeyA, N4>> >>)>>) >>                       \* 11: [{a: 1}, {b: 3}, {a: 4}]

NewHeap == ConstructAll(Heap(<<>>, <<>>), NewInputs)

\* the arguments of range
RangeEnds == (0 - 3)..3
RangeSteps == 1..3

\* the values handed to the constructor: a primitive of each type, a function,
\* null, a list, a list of pairs, an iterator, a Map, Collections, a plain
\* record and the record of the own properties of any other object
Shapes ==
  { N5, SX, Bool(TRUE), Undef, Fun(N1), Null,
    Arr(<<N1, N2>>), Arr(<<>>), Arr(<<Arr(<<KeyA, N1>>), Arr(<<KeyB, N2>>)>>),
    Iter(<<N1, N2>>), Iter(<<Arr(<<KeyA, N1>>)>>), MapRef(1), MapRef(7),
    Col(1), Col(7), Obj(<< <<KeyA, N1>> >>), Obj(<<>>) }

InitNew ==
  /\ maps = NewHeap.maps
  /\ items = NewHeap.items
  /\ ev = Event("init", 0, 0, Undef, Undef, "")
  /\ steps = 0

\* what `new Collection(x)` gives: the entries of the new Collection, or the
\* TypeError raised
Constructed(ms, its, x) ==
  IF getObjectableItems(ms, its, x).kind = "throw" THEN Throw
  ELSE MapOf(Result(Construct(ms, its, x)))

\* new Collection(x)
Constructs(x) ==
  Answers(Heap(maps, items), "new", 0, x, Undef, Constructed(maps, items, x))

\* Collection.range(start, stop, step)
Range(start, stop, step) ==
  Answers(Heap(maps, items), "range", 0, <<start, stop>>, step,
          Result(range(maps, items, start, stop, step)))

\* c.median(key)
Median(c, key) ==
  /\ Truthy(key) => PluckReturns(maps, items, c, key, Undef)
  /\ Answers(Heap(maps, items), "median", c, key, Undef, median(maps, items, c, key))

NextNew ==
  \/ \E x \in Shapes : Constructs(x)
  \/ \E start \in RangeEnds, stop \in RangeEnds, step \in RangeSteps : Range(start, stop, step)
  \/ \E c \in Cols, key \in {Undef, KeyA} : Median(c, key)

SpecNew == InitNew /\ [][NextNew]_vars

-----------------------------------------------------------------------------
(* Properties of the constructor and of the Collection operations,         *)
(* checked under Spec.                                                     *)

\* the entries of Collection c in the current state and in the next one
EntriesOf(c) == entries(maps[items[c]])
EntriesOfNext(c) == entries(maps'[items'[c]])

C2_TransformsLeaveSourceUnchanged ==
  [][ev'.op \in {"map", "filter", "sort", "values"} =>
       /\ EntriesOfNext(ev'.c) = EntriesOf(ev'.c)
       /\ all(maps', items'[ev'.c]) = all(maps, items[ev'.c])
       /\ toObject(EntriesOfNext(ev'.c)) = toObject(EntriesOf(ev'.c))]_vars

\* sort has returned a Collection whose entries are ordered otherwise than the source's
C2_Witness ==
  /\ ev.op = "sort"
  /\ Len(EntriesOf(ev.c)) > 1
  /\ EntriesOf(ev.r) # EntriesOf(ev.c)

\* C3: push(v1, ..., vn) returns the Collection, count() grows by n, every
\* entry present before keeps its key and value, and v1..vn are the last n
\* values in order.
C3_PushAppends ==
  [][ev'.op = "push" =>
       LET e == EntriesOf(ev'.c)
           e2 == EntriesOfNext(ev'.c)
           vs == ev'.x.a
       IN /\ ev'.r = ev'.c
          /\ count(e2) = count(e) + Len(vs)
          /\ \A i \in 1..Len(e) : has(e2, e[i][1]) /\ MapGet(e2, e[i][1]) = e[i][2]
          /\ SubSeq(ValuesOf(e2), count(e) + 1, count(e2)) = vs]_vars

\* the values of a concat source, in order
SourceValues(src) ==
  LET n == getObjectableItems(maps, items, src)
  IN IF n.kind = "alias" THEN ValuesOf(maps[n.id]) ELSE ValuesOf(n.e)

\* C4: concat(s) returns a new Collection holding the values of c followed by
\* the values of s, keyed 0..n-1, and leaves c unchanged.
C4_ConcatAppendsToCopy ==
  [][ev'.op = "concat" =>
       LET vs == ValuesOf(EntriesOf(ev'.c)) \o SourceValues(ev'.x)
       IN /\ EntriesOfNext(ev'.r) = [i \in 1..Len(vs) |-> <<Num(i - 1), vs[i]>>]
          /\ EntriesOfNext(ev'.c) = EntriesOf(ev'.c)]_vars

\* C5: collect() returns a snapshot with the entries of c, and a push or a put
\* on either of the two leaves the entries of the other unchanged.
C5_CollectIsIndependentSnapshot ==
  ev.op = "collect" =>
    /\ EntriesOf(ev.r) = EntriesOf(ev.c)
    /\ \A vs \in PushArgs :
         /\ LET h == push(maps, items, ev.r, vs)
            IN h.maps[h.items[ev.c]] = EntriesOf(ev.c)
         /\ LET h == push(maps, items, ev.c, vs)
            IN h.maps[h.items[ev.r]] = EntriesOf(ev.r)
    /\ \A k \in PutKeys, v \in PutValues :
         /\ LET h == put(maps, items, ev.r, k, v)
            IN h.maps[h.items[ev.c]] = EntriesOf(ev.c)
         /\ LET h == put(maps, items, ev.c, k, v)
            IN h.maps[h.items[ev.r]] = EntriesOf(ev.r)

\* C6: map(f) has the entries of c, in the same order and under the same
\* keys, each value v at key k replaced by f(v, k).
C6_MapKeepsKeysAndOrder ==
  ev.op = "map" =>
    LET e == EntriesOf(ev.c)
    IN /\ EntriesOf(ev.r) = [i \in 1..Len(e) |-> <<e[i][1], CallMap(ev.f, e[i][2], e[i][1])>>]
       /\ \A i \in 1..Len(e) :
            /\ has(EntriesOf(ev.r), e[i][1])
            /\ MapGet(EntriesOf(ev.r), e[i][1]) = CallMap(ev.f, e[i][2], e[i][1])

\* C7: values() has count() entries, the i-th with key i and the i-th value
\* of c, whatever the values are.
C7_ValuesRekeysFromZero ==
  ev.op = "values" =>
    LET e == EntriesOf(ev.c)
    IN /\ count(EntriesOf(ev.r)) = count(e)
       /\ EntriesOf(ev.r) = [i \in 1..Len(e) |-> <<Num(i - 1), e[i][2]>>]

-----------------------------------------------------------------------------
(* Properties of dataGet, checked under SpecGet.                           *)

\* the key is a path of named segments: no empty segment and no wildcard
IsNamedPath(key) ==
  /\ key.t \in {"str", "arr"}
  /\ Truthy(key)
  /\ Len(KeySegments(key)) > 0
  /\ \A i \in 1..Len(KeySegments(key)) :
       Len(KeySegments(key)[i]) > 0 /\ KeySegments(key)[i] # Star

RECURSIVE Resolve(_, _, _)
\* the value at the path segs of t, resolved segment by segment: a key of a
\* record, an index of a list, a key a Collection has; the evaluated fallback
\* when a segment is missing
Resolve(t, segs, fallback) ==
  IF Len(segs) = 0 THEN t
  ELSE IF t.t = "obj" /\ HasKey(t.e, Str(segs[1]))
  THEN Resolve(MapGet(t.e, Str(segs[1])), Tail(segs), fallback)
  ELSE IF t.t = "arr" /\ IsIndexKey(segs[1]) /\ ParseInt(segs[1]).n < Len(t.a)
  THEN Resolve(ElemAt(t.a, ParseInt(segs[1]).n), Tail(segs), fallback)
  ELSE IF t.t = "col" /\ has(EntriesOf(t.id), Str(segs[1]))
  THEN Resolve(MapGet(EntriesOf(t.id), Str(segs[1])), Tail(segs), fallback)
  ELSE value(fallback)

\* C8: on a plain target dataGet returns the value stored at the path, a
\* segment naming a key of a record or an index of a list, and the evaluated
\* fallback when a segment is missing.
C8_DataGetResolvesPath ==
  (ev.op = "dataGet" /\ ev.target.t # "col" /\ IsNamedPath(ev.key))
  => ev.result = Resolve(ev.target, KeySegments(ev.key), ev.fallback)

\* C9: on a Collection dataGet resolves a segment the Collection has to the
\* value stored under it, descending through nested Collections, and returns
\* the evaluated fallback when the Collection does not have the segment.
C9_DataGetResolvesThroughCollection ==
  (ev.op = "dataGet" /\ ev.target.t = "col" /\ IsNamedPath(ev.key))
  => ev.result = Resolve(ev.target, KeySegments(ev.key), ev.fallback)

RECURSIVE StoresUndefined(_, _)
\* the path segs leads through records of t to a key that exists and holds undefined
StoresUndefined(t, segs) ==
  /\ t.t = "obj"
  /\ Len(segs) > 0
  /\ HasKey(t.e, Str(segs[1]))
  /\ IF Len(segs) = 1 THEN MapGet(t.e, Str(segs[1])) = Undef
     ELSE StoresUndefined(MapGet(t.e, Str(segs[1])), Tail(segs))

\* C10: dataGet returns the fallback when the key exists and its value is undefined.
C10_FallbackForUndefinedValue ==
  (/\ ev.op = "dataGet"
   /\ IsNamedPath(ev.key)
   /\ StoresUndefined(ev.target, KeySegments(ev.key)))
  => ev.result = value(ev.fallback)

-----------------------------------------------------------------------------
(* Properties of the operations with callbacks, defaults and second        *)
(* sources, checked under SpecOps.                                         *)

\* the number of positions of vs that hold v
Occurrences(vs, v) == Cardinality({i \in 1..Len(vs) : vs[i] = v})

\* the values of vs that occur at least as often as every other value
Modes(vs) ==
  {vs[i] : i \in {i \in 1..Len(vs) :
                    \A j \in 1..Len(vs) : Occurrences(vs, vs[j]) <= Occurrences(vs, vs[i])}}

\* C11: mode() returns an array that lists exactly the distinct values whose
\* number of occurrences is maximal, each once, in ascending order of value
\* (numbers numerically, other values by their text), whatever the order of
\* occurrence; on an empty Collection it returns [].
C11_ModeIsAscendingMaxima ==
  (ev.op = "mode" /\ ev.x = Undef) =>
    LET vs == ValuesOf(EntriesOf(ev.c))
        r == ev.result
    IN /\ r.t = "arr"
       /\ {r.a[i] : i \in 1..Len(r.a)} = Modes(vs)
       /\ Len(r.a) = Cardinality(Modes(vs))
       /\ \A i, j \in 1..Len(r.a) : i < j => sorter(r.a[i], r.a[j]) <= 0

\* the positions of the entries of Collection c that satisfy predicate p
Hits(c, p) ==
  {i \in 1..Len(EntriesOf(c)) :
     Truthy(Call(maps, items, p, EntriesOf(c)[i][2], EntriesOf(c)[i][1]))}

\* C12: last() without a callback returns the value of the last entry of a
\* non-empty Collection, whatever that value is, and the evaluated default
\* only when the Collection is empty; last(p) returns the value of the last
\* entry, in the Collection's order, that satisfies p(value, key), and the
\* evaluated default when no entry does.
C12_LastReturnsLastEntry ==
  ev.op = "last" =>
    LET e == EntriesOf(ev.c)
        hits == Hits(ev.c, ev.x)
    IN IF ~Truthy(ev.x)
       THEN ev.result = (IF Len(e) = 0 THEN value(ev.y) ELSE e[Len(e)][2])
       ELSE ev.result = (IF hits = {} THEN value(ev.y)
                         ELSE e[CHOOSE i \in hits : \A j \in hits : j <= i][2])

\* C13: containsStrict(p) with a single predicate p is true if and only if
\* at least one entry of the Collection satisfies p; it is false when none
\* does, and on an empty Collection.
C13_ContainsStrictPredicate ==
  (ev.op = "containsStrict" /\ TypeOf(ev.x) = "function") =>
    ev.result = Bool(Hits(ev.c, ev.x) # {})

SecondValues(b) == IF b.t = "col" THEN ValuesOf(EntriesOf(b.id)) ELSE b.a

\* C15: a.combine(b) has, for every i below min(a.count(), length of b), the
\* i-th value of a as a key (holding the value of b at the last such position
\* with that key) and no other entry: the surplus of the longer side is dropped.
C15_CombinePairsUpToShorter ==
  ev.op = "combine" =>
    LET ks == ValuesOf(EntriesOf(ev.c))
        vs == SecondValues(ev.x)
        n == IF Len(ks) < Len(vs) THEN Len(ks) ELSE Len(vs)
        LastAt(k) == CHOOSE i \in 1..n : ks[i] = k /\ \A j \in 1..n : ks[j] = k => j <= i
    IN /\ \A i \in 1..n : has(ev.result, ks[i]) /\ MapGet(ev.result, ks[i]) = vs[LastAt(ks[i])]
       /\ \A i \in 1..Len(ev.result) : \E j \in 1..n : ev.result[i][1] = ks[j]

\* the entries of the comparison source x of diff, diffAssoc and diffKeys
Other(x) == Normalised(maps, items, x)

\* C16: diff, diffAssoc and diffKeys return exactly the entries of the source
\* that pass the test (value not among the other's values; (key, value) not
\* among the other's entries; key not among the other's keys), each under its
\* original key and in source order, so [1,2,3].diff([1,2,4]) is {2 => 3};
\* no key of a diffKeys result is a key of the comparison source.
C16_DiffKeepsPassingEntries ==
  /\ ev.op = "diff" =>
       ev.result = SelectSeq(EntriesOf(ev.c),
                     LAMBDA e : ~\E i \in 1..Len(Other(ev.x)) : Other(ev.x)[i][2] = e[2])
  /\ ev.op = "diffAssoc" =>
       ev.result = SelectSeq(EntriesOf(ev.c),
                     LAMBDA e : ~\E i \in 1..Len(Other(ev.x)) : Other(ev.x)[i] = e)
  /\ ev.op = "diffKeys" =>
       /\ ev.result = SelectSeq(EntriesOf(ev.c), LAMBDA e : ~has(Other(ev.x), e[1]))
       /\ \A i \in 1..Len(ev.result) : ~has(Other(ev.x), ev.result[i][1])

\* a list, a Collection or a record: a value flatten unwraps
IsNested(v) == v.t \in {"arr", "col", "obj"}

\* the values held by a nested value, in order
Children(v) ==
  IF v.t = "arr" THEN v.a
  ELSE IF v.t = "col" THEN ValuesOf(EntriesOf(v.id))
  ELSE ValuesOf(v.e)

RECURSIVE Unwrapped(_, _)
\* vs with depth levels of nesting unwrapped, in order
Unwrapped(vs, depth) ==
  IF Len(vs) = 0 THEN <<>>
  ELSE (IF IsNested(vs[1]) /\ (depth.inf \/ depth.n >= 1)
        THEN Unwrapped(Children(vs[1]), Less(depth)) ELSE <<vs[1]>>)
       \o Unwrapped(Tail(vs), depth)

RECURSIVE HasRecord(_)
\* a record occurs in v below the top of v
HasRecord(v) ==
  IsNested(v) /\ \E i \in 1..Len(Children(v)) :
                    Children(v)[i].t = "obj" \/ HasRecord(Children(v)[i])

\* C17: flatten(d) returns the list, keyed 0, 1, ..., of the values left after
\* unwrapping exactly d levels of nesting below the top level, all levels for
\* Infinity: nested lists, list-like Collections and map-like Collections,
\* a Collection inside a list and a list inside a Collection alike; what is
\* nested deeper than d stays as it is.  (Records below the top level of an
\* element are left out of the statement.)
C17_FlattenUnwrapsDepthLevels ==
  (ev.op = "flatten" /\ \A i \in 1..Len(EntriesOf(ev.c)) : ~HasRecord(EntriesOf(ev.c)[i][2])) =>
    LET u == Unwrapped(ValuesOf(EntriesOf(ev.c)), ev.x)
    IN ev.result = [i \in 1..Len(u) |-> <<Num(i - 1), u[i]>>]

\* the position of entry x in the entry list e
PositionIn(e, x) == CHOOSE i \in 1..Len(e) : e[i] = x

Returned(e, i) == Call(maps, items, ev.x, e[i][2], e[i][1])

\* C19: each(cb) calls cb(value, key) on the entries in the Collection's
\* order; after the first call that returns the boolean false it makes no
\* further call, and no other result stops it; it leaves the Collection
\* unchanged and returns the Collection itself.
C19_EachStopsAtLiteralFalse ==
  [][ev'.op = "each" =>
       LET e == EntriesOf(ev'.c)
           calls == ev'.result.calls
           Ret(i) == Call(maps, items, ev'.x, e[i][2], e[i][1])
       IN /\ Len(calls) <= Len(e)
          /\ \A i \in 1..Len(calls) : calls[i] = e[i]
          /\ \A i \in 1..Len(calls) : Ret(i) = Bool(FALSE) => i = Len(calls)
          /\ Len(calls) < Len(e) => Ret(Len(calls)) = Bool(FALSE)
          /\ EntriesOfNext(ev'.c) = e
          /\ maps' = maps /\ items' = items
          /\ ev'.result.returned = Col(ev'.c)]_vars

\* each went past a call that returned undefined and stopped at the first
\* call that returned false, before the end of the Collection
C19_Witness ==
  /\ ev.op = "each"
  /\ Len(ev.result.calls) > 1
  /\ Len(ev.result.calls) < Len(EntriesOf(ev.c))
  /\ Returned(EntriesOf(ev.c), 1) = Undef
  /\ Returned(EntriesOf(ev.c), Len(ev.result.calls)) = Bool(FALSE)

\* the key of element v at path key, when it resolves to a defined primitive
KeyAt(v, key) == Resolve(v, KeySegments(PathOf(key)), Undef)

\* C20: pluck(valuePath) returns a list with one entry per element of the
\* source, in order, holding the value at valuePath, undefined on a miss;
\* pluck(valuePath, keyPath), every element having a key at keyPath, returns
\* a Collection with one entry per distinct key, holding the value of the
\* last element with that key.
C20_PluckValuesAndKeys ==
  ev.op = "pluck" =>
    LET vs == ValuesOf(EntriesOf(ev.c))
        ValueAt(i) == Resolve(vs[i], KeySegments(PathOf(ev.x)), Undef)
        LastWith(k) == CHOOSE i \in 1..Len(vs) :
                         KeyAt(vs[i], ev.y) = k /\ \A j \in 1..Len(vs) : KeyAt(vs[j], ev.y) = k => j <= i
    IN IF ~Truthy(ev.y)
       THEN ev.result = [i \in 1..Len(vs) |-> <<Num(i - 1), ValueAt(i)>>]
       ELSE (\A i \in 1..Len(vs) : IsPrimitive(KeyAt(vs[i], ev.y)) /\ KeyAt(vs[i], ev.y) # Undef) =>
              /\ {ev.result[i] : i \in 1..Len(ev.result)}
                   = {<<KeyAt(vs[i], ev.y), ValueAt(LastWith(KeyAt(vs[i], ev.y)))>> : i \in 1..Len(vs)}
              /\ Len(ev.result) = Cardinality({KeyAt(vs[i], ev.y) : i \in 1..Len(vs)})

-----------------------------------------------------------------------------
(* Properties of the constructor, of range and of median, checked under    *)
(* SpecNew.                                                                *)

Abs(n) == IF n < 0 THEN 0 - n ELSE n

\* n lies between a and b inclusive, whichever of them is the smaller
Between(n, a, b) == (a <= n /\ n <= b) \/ (b <= n /\ n <= a)

\* C21: for integers start, stop and step >= 1, range(start, stop, step) is
\* the list start, start + d*step, start + 2*d*step, ... with d = +1 if
\* start <= stop and d = -1 otherwise; it holds exactly the terms between
\* start and stop inclusive, floor(|stop - start| / step) + 1 of them, and
\* with step 1 its last element is stop.
C21_RangeIsInclusiveProgression ==
  ev.op = "range" =>
    LET start == ev.x[1]
        stop == ev.x[2]
        step == ev.y
        d == IF start <= stop THEN 1 ELSE 0 - 1
        r == ev.result
    IN /\ Len(r) = Abs(stop - start) \div step + 1
       /\ \A i \in 1..Len(r) : r[i] = <<Num(i - 1), Num(start + (i - 1) * d * step)>>
       /\ \A i \in 1..Len(r) : Between(r[i][2].n, start, stop)
       /\ ~Between(start + Len(r) * d * step, start, stop)
       /\ step = 1 => r[Len(r)][2] = Num(stop)

\* a descending range whose step does not divide the distance has been made:
\* range(3, -2, 2) is [3, 1, -1]
C21_Witness ==
  /\ ev.op = "range"
  /\ ev.x = <<3, 0 - 2>>
  /\ ev.y = 2
  /\ ValuesOf(ev.result) = <<Num(3), Num(1), Num(0 - 1)>>

\* the number a value parses as, doubled; the values that parse as none are
\* those of NoNumber
NoNumber(v) == ~(v.t = "num" \/ (v.t = "str" /\ Len(v.s) > 0 /\ ~ToNumber(v.s).nan))
Doubled(v) ==
  IF v.t = "str" THEN 2 * ToNumber(v.s).n
  ELSE IF "twice" \in DOMAIN v THEN v.twice ELSE 2 * v.n

\* the k-th smallest of the numbers of the sequence ns
Kth(ns, k) ==
  CHOOSE x \in {ns[i] : i \in 1..Len(ns)} :
    /\ Cardinality({i \in 1..Len(ns) : ns[i] < x}) < k
    /\ k <= Cardinality({i \in 1..Len(ns) : ns[i] <= x})

\* the values median(key) is taken over: those of the Collection, or what
\* lies at key in each of them
MedianSource(c, key) ==
  LET vs == ValuesOf(EntriesOf(c))
  IN IF key = Undef THEN vs ELSE [i \in 1..Len(vs) |-> KeyAt(vs[i], key)]

\* C22: median(key) over the values that parse as numbers (after the pluck
\* by key, the others dropped) is the middle one of them in ascending order
\* when their count is odd, the mean of the two middle ones when it is even,
\* and NaN when there is none.
C22_MedianIsMiddleOfSorted ==
  ev.op = "median" =>
    LET kept == SelectSeq(MedianSource(ev.c, ev.x), LAMBDA v : ~NoNumber(v))
        ns == [i \in 1..Len(kept) |-> Doubled(kept[i]) \div 2]
        n == Len(ns)
    IN IF n = 0 THEN ev.result = NotANumber
       ELSE /\ ev.result # NotANumber
            /\ Doubled(ev.result) = IF n % 2 = 1 THEN 2 * Kth(ns, n \div 2 + 1)
                                    ELSE Kth(ns, n \div 2) + Kth(ns, n \div 2 + 1)

\* C29: constructing a Collection never raises: for every input value
\* (primitive, null, list, list of pairs, other iterable, Map, Collection,
\* plain record or any other object) the normalisation returns an ordered
\* map, an object of no recognised shape being read as a keyed record.
C29_ConstructionNeverRaises ==
  ev.op = "new" =>
    /\ ev.result # Throw
    /\ ev.result.t = "map"
    /\ ev.x.t = "obj" => ev.result.e = ev.x.e

-----------------------------------------------------------------------------
(* Properties of put and of the keys of a Collection, checked under Spec.  *)

\* a key whose string form is a decimal integer
IntegerLike(k) == Len(JsString(k)) > 0 /\ ~ToNumber(JsString(k)).nan

\* C26: put(k, v) with k defined: if every existing key is integer-like and
\* k is not, the Collection afterwards holds the single entry (k, v);
\* otherwise every other entry keeps its key, value and position and k maps
\* to v, at its old position if k was present and last if not.
\* put(undefined, v) has the effect of push(v).  The same Collection is
\* returned.
C26_PutResetsOrKeepsEntries ==
  [][ev'.op = "put" =>
       LET e == maps[items[ev'.c]]
           after == maps'[items'[ev'.c]]
           k == ev'.x
           v == ev'.y
       IN /\ ev'.r = ev'.c
          /\ IF k = Undef THEN after = Result(push(maps, <<items[ev'.c]>>, 1, <<v>>))
             ELSE IF (\A i \in 1..Len(e) : IntegerLike(e[i][1])) /\ ~IntegerLike(k)
             THEN after = << <<k, v>> >>
             ELSE IF \E i \in 1..Len(e) : e[i][1] = k
             THEN after = [i \in 1..Len(e) |-> IF e[i][1] = k THEN <<k, v>> ELSE e[i]]
             ELSE after = Append(e, <<k, v>>)]_vars

\* C30: no two entries of a Collection have keys with the same string form,
\* so count() is the number of properties of toObject().
C30_KeysDistinctAsStrings ==
  \A c \in Cols :
    /\ \A i, j \in 1..Len(EntriesOf(c)) :
         i # j => JsString(EntriesOf(c)[i][1]) # JsString(EntriesOf(c)[j][1])
    /\ count(EntriesOf(c)) = Len(toObject(EntriesOf(c)).e)

-----------------------------------------------------------------------------
(* Properties of the wildcard of dataGet, checked under SpecGet.           *)

\* the key is a path with a `*` segment and without an empty segment
IsStarPath(key) ==
  /\ key.t \in {"str", "arr"}
  /\ Truthy(key)
  /\ \A i \in 1..Len(KeySegments(key)) : Len(KeySegments(key)[i]) > 0
  /\ \E i \in 1..Len(KeySegments(key)) : KeySegments(key)[i] = Star

\* the elements of a list, the property values of a record, in order
Elements(t) == IF t.t = "arr" THEN t.a ELSE ValuesOf(t.e)

RECURSIVE ResolveAll(_, _, _)
\* the value at the path segs of the plain value t, a `*` standing for every
\* element of a list or record: one result per element, in a list that is
\* flattened by one level when a further `*` follows
ResolveAll(t, segs, fallback) ==
  IF Len(segs) = 0 THEN t
  ELSE IF segs[1] = Star
  THEN IF t.t \in {"arr", "obj"}
       THEN LET rs == [i \in 1..Len(Elements(t)) |->
                         ResolveAll(Elements(t)[i], Tail(segs), fallback)]
            IN IF \E i \in 2..Len(segs) : segs[i] = Star THEN Arr(Flat(rs)) ELSE Arr(rs)
       ELSE value(fallback)
  ELSE IF t.t = "obj" /\ HasKey(t.e, Str(segs[1]))
  THEN ResolveAll(MapGet(t.e, Str(segs[1])), Tail(segs), fallback)
  ELSE IF t.t = "arr" /\ IsIndexKey(segs[1]) /\ ParseInt(segs[1]).n < Len(t.a)
  THEN ResolveAll(ElemAt(t.a, ParseInt(segs[1]).n), Tail(segs), fallback)
  ELSE value(fallback)

\* C27: a `*` segment on a list or record resolves the remaining path against
\* every element in order and returns a list with one result per element,
\* the evaluated fallback standing for each miss; the per-element results
\* are flattened by one level if the remaining path has another `*`; on a
\* target that is neither a list, a record nor a Collection the fallback is
\* returned.
C27_StarResolvesEveryElement ==
  (ev.op = "dataGet" /\ ev.target.t # "col" /\ IsStarPath(ev.key))
  => ev.result = ResolveAll(ev.target, KeySegments(ev.key), ev.fallback)

-----------------------------------------------------------------------------
(* Properties of dataSet, dataFill and dataForget, checked under SpecSet.  *)

\* the key has no `*` segment
IsPlainPath(key) ==
  \A i \in 1..Len(SetSegments(key)) : SetSegments(key)[i] # Star

\* the keys of a record and the indices of a list, as strings
OwnKeys(t) ==
  CASE t.t = "obj" -> {t.e[i][1].s : i \in 1..Len(t.e)}
    [] t.t = "arr" -> {NatToStr(i - 1) : i \in 1..Len(t.a)}
    [] OTHER -> {}

\* the value a record or list t holds under its key k
Own(t, k) == IF t.t = "obj" THEN MapGet(t.e, Str(k)) ELSE t.a[ParseInt(k).n + 1]

RECURSIVE HasPath(_, _)
\* every segment of segs names a key of the node reached so far
HasPath(t, segs) ==
  \/ Len(segs) = 0
  \/ segs[1] \in OwnKeys(t) /\ HasPath(Own(t, segs[1]), Tail(segs))

RECURSIVE NodeAt(_, _)
\* the node a path that exists leads to
NodeAt(t, segs) == IF Len(segs) = 0 THEN t ELSE NodeAt(Own(t, segs[1]), Tail(segs))

RECURSIVE WrittenAt(_, _, _, _)
\* after is before with v stored at the path segs: along the path a node
\* that is neither a record nor a list has become a record, a missing key
\* has been added, and every other key holds what it held
WrittenAt(before, after, segs, v) ==
  /\ after.t \in {"obj", "arr"}
  /\ before.t \notin {"obj", "arr"} => after.t = "obj"
  /\ OwnKeys(after) = OwnKeys(before) \cup {segs[1]}
  /\ \A k \in OwnKeys(before) \ {segs[1]} : Own(after, k) = Own(before, k)
  /\ IF Len(segs) = 1 THEN Own(after, segs[1]) = v
     ELSE WrittenAt(IF segs[1] \in OwnKeys(before) THEN Own(before, segs[1]) ELSE Undef,
                    Own(after, segs[1]), Tail(segs), v)

\* C23: dataSet with a path without `*` returns a structure that holds the
\* value at the path, with a record created for each missing key and in
\* place of an undefined or scalar node on the path, and with every key
\* off the path unchanged.
C23_DataSetStoresAtPath ==
  (ev.op = "dataSet" /\ IsPlainPath(ev.key))
  => WrittenAt(ev.target, ev.result, SetSegments(ev.key), ev.value)

\* dataSet({foo: 'bar'}, 'foo.bar', 'boom') has returned {foo: {bar: 'boom'}}
C23_Witness ==
  /\ ev.op = "dataSet"
  /\ ev.target = Obj(<< <<SFoo, SBar>> >>)
  /\ ev.key = Str(<<"f", "o", "o", ".", "b", "a", "r">>)
  /\ ev.value = SBoom
  /\ ev.result = Obj(<< <<SFoo, Obj(<< <<SBar, SBoom>> >>)>> >>)

\* the segments before the last one
ParentPath(segs) == SubSeq(segs, 1, Len(segs) - 1)

\* the last segment
FinalKey(segs) == segs[Len(segs)]

\* C24: a write at a position of a list leaves the list a list, as in
\* dataSet({users: {name: ['Taylor', 'Otwell']}}, 'users.name.0', 'Abigail');
\* a list becomes a record keyed by index only for a named final segment.
C24_PositionalWriteKeepsList ==
  (/\ ev.op = "dataSet"
   /\ IsPlainPath(ev.key)
   /\ HasPath(ev.target, ParentPath(SetSegments(ev.key)))
   /\ NodeAt(ev.target, ParentPath(SetSegments(ev.key))).t = "arr"
   /\ IsIndexKey(FinalKey(SetSegments(ev.key))))
  => /\ HasPath(ev.result, ParentPath(SetSegments(ev.key)))
     /\ NodeAt(ev.result, ParentPath(SetSegments(ev.key))).t = "arr"

\* C28: dataFill with a path without `*` leaves a value stored under the
\* final key as it is, and stores the new value when the final key is
\* absent, also under a parent that was missing or a scalar.
C28_DataFillWritesOnlyWhenAbsent ==
  (ev.op = "dataFill" /\ IsPlainPath(ev.key))
  => /\ HasPath(ev.result, SetSegments(ev.key))
     /\ NodeAt(ev.result, SetSegments(ev.key)) =
          IF HasPath(ev.target, SetSegments(ev.key))
          THEN NodeAt(ev.target, SetSegments(ev.key))
          ELSE ev.value

\* t with its key k removed: the property of a record, the element of a
\* list with the later elements moved down
Without(t, k) ==
  IF t.t = "obj" THEN Obj(SelectSeq(t.e, LAMBDA p : p[1] # Str(k)))
  ELSE Arr(SubSeq(t.a, 1, ParseInt(k).n) \o SubSeq(t.a, ParseInt(k).n + 2, Len(t.a)))

\* t with the value under its key k replaced by x
With(t, k, x) ==
  IF t.t = "obj" THEN Obj([i \in 1..Len(t.e) |->
                             IF t.e[i][1] = Str(k) THEN <<t.e[i][1], x>> ELSE t.e[i]])
  ELSE Arr([t.a EXCEPT ![ParseInt(k).n + 1] = x])

RECURSIVE Forgotten(_, _)
\* t without what the path segs addresses: a `*` stands for every element,
\* and a segment that names no key leaves the node as it is
Forgotten(t, segs) ==
  IF Len(segs) = 0 THEN t
  ELSE IF segs[1] = Star
  THEN IF Len(segs) = 1 THEN t
       ELSE CASE t.t = "arr" -> Arr([i \in 1..Len(t.a) |-> Forgotten(t.a[i], Tail(segs))])
              [] t.t = "obj" -> Obj([i \in 1..Len(t.e) |->
                                       <<t.e[i][1], Forgotten(t.e[i][2], Tail(segs))>>])
              [] OTHER -> t
  ELSE IF segs[1] \in OwnKeys(t)
  THEN IF Len(segs) = 1 THEN Without(t, segs[1])
       ELSE With(t, segs[1], Forgotten(Own(t, segs[1]), Tail(segs)))
  ELSE t

\* C25: dataForget returns the target without what the path addresses (a
\* property of a record, an element of a list, the rest of the path in
\* every element for a `*`), and the target unchanged when a segment names
\* no key or no index.
C25_DataForgetRemovesAddressed ==
  ev.op = "dataForget" => ev.result = Forgotten(ev.target, SetSegments(ev.key))

====
